---- MODULE Spec2Model ----
(***************************************************************************)
(* The community board function (netlify/functions/community/index.cjs):   *)
(* posts, comments, likes and bookmarks kept in a key-value store with     *)
(* hand-maintained indices, behind one HTTP entry point (exports.handler). *)
(*                                                                         *)
(* The store client (@upstash/redis) is modelled by what its commands do   *)
(* on hashes, lists and sets; every command succeeds.                      *)
(***************************************************************************)
EXTENDS Integers, Sequences, FiniteSets, TLC

VARIABLES db, resp, nextPost, nextComment, clock, likeCalls, bookmarkCalls, fault,
          faults, running, base

vars ==
  <<db, resp, nextPost, nextComment, clock, likeCalls, bookmarkCalls, fault, faults,
    running, base>>

(***************************************************************************)
(* Bounds of the model.                                                    *)
(***************************************************************************)
\* number of posts nanoid() names in one behaviour
MaxPosts == 1
\* number of comments nanoid() names in one behaviour
MaxComments == 2
\* the last instant new Date() can return
MaxClock == 1
\* store failures in one behaviour
MaxFaults == 1

(***************************************************************************)
(* JavaScript values of a request body.  A string is the sequence of its   *)
(* symbols, an array the sequence of its items; undefined is an absent     *)
(* field.                                                                  *)
(***************************************************************************)
Undefined == [t |-> "undefined", v |-> <<>>]
Null == [t |-> "null", v |-> <<>>]
Str(s) == [t |-> "string", v |-> s]
Arr(s) == [t |-> "array", v |-> s]

\* !!x
Truthy(x) ==
  CASE x.t = "undefined" -> FALSE
    [] x.t = "null" -> FALSE
    [] x.t = "string" -> x.v # <<>>
    [] OTHER -> TRUE

\* x || y
OrElse(x, y) == IF Truthy(x) THEN x ELSE y

\* `${x}` inside a key
Template(x) ==
  CASE x.t = "undefined" -> <<"undefined">>
    [] x.t = "null" -> <<"null">>
    [] OTHER -> x.v

\* for (const e of x): the items of an array, the characters of a string
Iterable(x) == x.t \in {"array", "string"}

Range(s) == {s[i] : i \in 1..Len(s)}

\* JSON.stringify of an array of strings or of a string, as the token
\* sequence of the text
JSONStringify(x) ==
  IF x.t = "array"
    THEN <<"[">> \o
         [i \in 1..(IF Len(x.v) = 0 THEN 0 ELSE 2 * Len(x.v) - 1) |->
            IF i % 2 = 1 THEN x.v[(i + 1) \div 2] ELSE ","] \o
         <<"]">>
    ELSE <<"QUOTE">> \o x.v \o <<"QUOTE">>

\* JSON.parse losing the last item of an array
JSONParse_DropsLast(txt) ==
  IF txt[1] = "["
    THEN Arr([i \in 1..((Len(txt) - 1) \div 2 - 1) |-> txt[2 * i]])
    ELSE Str(SubSeq(txt, 2, Len(txt) - 1))

\* JSON.parse of such a text
JSONParse(txt) ==
  IF txt[1] = "["
    THEN Arr([i \in 1..((Len(txt) - 1) \div 2) |-> txt[2 * i]])
    ELSE Str(SubSeq(txt, 2, Len(txt) - 1))

(***************************************************************************)
(* The store commands, on the value held under one key.                    *)
(***************************************************************************)
Lpush(list, x) == <<x>> \o list
Lrem(list, x) == SelectSeq(list, LAMBDA e : e # x)
Sadd(set, k, m) == set \cup {<<k, m>>}
Srem(set, k, m) == set \ {<<k, m>>}
Smembers(set, k) == {e[2] : e \in {x \in set : x[1] = k}}
Sismember(set, k, m) == <<k, m>> \in set
Scard(set, k) == Cardinality(Smembers(set, k))
\* redis.del of a set
DelSet(set, k) == {x \in set : x[1] # k}
\* the keys a set family holds (a set exists while it has a member)
Keys(set) == {x[1] : x \in set}
\* redis.hgetall returns null for a key that holds no hash
HasHash(hashes, k) == k \in DOMAIN hashes
Hset(hashes, k, rec) == [x \in DOMAIN hashes \cup {k} |-> IF x = k THEN rec ELSE hashes[x]]
DelHash(hashes, k) == [x \in DOMAIN hashes \ {k} |-> hashes[x]]

\* a list under a key: an absent key is the empty list, and a list emptied by
\* lrem is an absent key
ListAt(lists, k) == IF k \in DOMAIN lists THEN lists[k] ELSE <<>>
LpushAt(lists, k, x) == Hset(lists, k, Lpush(ListAt(lists, k), x))
LremAt(lists, k, x) ==
  IF Lrem(ListAt(lists, k), x) = <<>>
    THEN DelHash(lists, k)
    ELSE Hset(lists, k, Lrem(ListAt(lists, k), x))

\* sadd / srem of one member under each key of a sequence, one command per
\* key: the set family once the loop has ended
SaddEach(set, ks, m) == set \cup {<<ks[i], m>> : i \in 1..Len(ks)}
SremEach(set, ks, m) == set \ {<<ks[i], m>> : i \in 1..Len(ks)}

\* srem of one member from every key of a set of keys
SremAll(set, ks, m) == {x \in set : ~(x[1] \in ks /\ x[2] = m)}

(***************************************************************************)
(* Callers.  A credential is the user id a valid token carries, or none.   *)
(***************************************************************************)
Users == {"u1", "u2", "adm"}
NoToken == "none"
\* a user id that a valid token carries and that has no profile record
NoProfile == "ghost"

InitialProfiles ==
  [u \in Users |->
     CASE u = "u1" -> [name |-> Str(<<"Ann">>), username |-> Str(<<"ann">>), role |-> "user"]
       [] u = "u2" -> [name |-> Undefined, username |-> Str(<<"bob">>), role |-> "user"]
       [] OTHER -> [name |-> Str(<<"Root">>), username |-> Str(<<"root">>), role |-> "admin"]]

\* the ids nanoid() returns, in the order it returns them
PostIdPool == <<"p1", "p2", "p3", "p4">>
CommentIdPool == <<"c1", "c2", "c3", "c4">>

\* a handler's result: the store it leaves, the status and the payload
Res(d, status, data) == [db |-> d, status |-> status, data |-> data]
NoData == <<>>

\* the record of a post as the read handlers return it
PostView(d, rec, tags) ==
  [id |-> rec.id, title |-> rec.title, content |-> rec.content,
   category |-> rec.category, tags |-> tags,
   authorId |-> rec.authorId, authorName |-> rec.authorName,
   createdAt |-> rec.createdAt, updatedAt |-> rec.updatedAt,
   likes |-> Scard(d.likes, rec.id),
   comments |-> Len(ListAt(d.postComments, rec.id))]

\* getPost entering the post it returns in the global list again
handleGetPost_Relists(d, postId) ==
  IF ~HasHash(d.post, postId)
    THEN Res(d, 404, NoData)
    ELSE Res([d EXCEPT !.posts = Lpush(@, postId)], 200,
             PostView(d, d.post[postId], JSONParse(d.post[postId].tags)))

handleGetPost(d, postId) ==
  IF ~HasHash(d.post, postId)
    THEN Res(d, 404, NoData)
    ELSE Res(d, 200, PostView(d, d.post[postId], JSONParse(d.post[postId].tags)))

\* the field of the body, or its default when the field is absent
Default(x, dflt) == IF x.t = "undefined" THEN dflt ELSE x

AuthorName(user) == OrElse(user.name, OrElse(user.username, Str(<<"Anonymous">>)))

\* the record createPost writes
NewPost(postId, now, userId, user, body) ==
  [id |-> postId, title |-> body.title, content |-> body.content,
   category |-> Default(body.category, Str(<<"discussion">>)),
   tags |-> JSONStringify(IF Default(body.tags, Arr(<<>>)).t = "array"
                            THEN Default(body.tags, Arr(<<>>))
                            ELSE Arr(<<>>)),
   authorId |-> userId, authorName |-> AuthorName(user),
   createdAt |-> now, updatedAt |-> now]

\* createPost's writes before its loop over the tags: the record, the global
\* list, the author's list, the category set
CreateWrites(d, post) ==
  [d EXCEPT !.post = Hset(@, post.id, post),
            !.posts = Lpush(@, post.id),
            !.userPosts = LpushAt(@, post.authorId, post.id),
            !.category = Sadd(@, Template(post.category), post.id)]

\* createPost indexing only the first tag
CreateTagIndex_FirstOnly(d, tags, postId) ==
  IF tags.v = <<>> THEN d.tag ELSE Sadd(d.tag, Head(tags.v), postId)

\* the tag index after createPost's loop over the request's tags
CreateTagIndex(d, tags, postId) == SaddEach(d.tag, tags.v, postId)

\* createPost once title and content are accepted; the loop over a tags value
\* that cannot be iterated throws after the writes before it
CreateAccepted(d, post, tags) ==
  IF ~Iterable(tags)
    THEN Res(CreateWrites(d, post), 500, NoData)
    ELSE Res([CreateWrites(d, post) EXCEPT !.tag = CreateTagIndex(d, tags, post.id)],
             201,
             [id |-> post.id, title |-> post.title, content |-> post.content,
              category |-> post.category,
              tags |-> IF tags.t = "array" THEN tags ELSE Arr(<<>>),
              authorId |-> post.authorId, authorName |-> post.authorName,
              createdAt |-> post.createdAt, updatedAt |-> post.updatedAt,
              likes |-> 0, comments |-> 0])

handleCreatePost(d, postId, now, userId, user, body) ==
  IF ~Truthy(body.title) \/ ~Truthy(body.content)
    THEN Res(d, 400, NoData)
    ELSE CreateAccepted(d, NewPost(postId, now, userId, user, body),
                        Default(body.tags, Arr(<<>>)))

\* the permission check letting every caller with a profile through
Permitted_Anyone(postData, userId, user) == user.role \in {"user", "admin"}

\* may this caller change the post
Permitted(postData, userId, user) ==
  ~(postData.authorId # userId /\ user.role # "admin")

\* does the update move the post to another category
CategoryChanges(postData, body) ==
  Truthy(body.category) /\ body.category # postData.category

\* the record updatePost writes
Updates(postData, now, body) ==
  [postData EXCEPT
     !.updatedAt = now,
     !.title = IF Truthy(body.title) THEN body.title ELSE @,
     !.content = IF Truthy(body.content) THEN body.content ELSE @,
     !.category = IF CategoryChanges(postData, body) THEN body.category ELSE @,
     !.tags = IF Truthy(body.tags) THEN JSONStringify(body.tags) ELSE @]

\* updatePost adding the new category without leaving the old one
UpdateCategoryIndex_KeepsOld(d, postData, category, postId) ==
  Sadd(d.category, Template(category), postId)

\* the category index after updatePost's category step
UpdateCategoryIndex(d, postData, category, postId) ==
  Sadd(Srem(d.category, Template(postData.category), postId), Template(category), postId)

\* the tag index after updatePost has dropped the old tags and added the new
UpdateTagIndex(d, postData, tags, postId) ==
  SaddEach(SremEach(d.tag, JSONParse(postData.tags).v, postId), tags.v, postId)

\* updatePost's writes: the category sets, the tag sets, the record
UpdateWrites(d, postData, postId, now, body) ==
  [d EXCEPT
     !.category = IF CategoryChanges(postData, body)
                    THEN UpdateCategoryIndex(d, postData, body.category, postId)
                    ELSE @,
     !.tag = IF Truthy(body.tags)
               THEN UpdateTagIndex(d, postData, body.tags, postId)
               ELSE @,
     !.post = Hset(@, postId, Updates(postData, now, body))]

\* updatePost writing the name of the caller's profile into the record
handleUpdatePost_Resyncs(d, postId, now, userId, user, body) ==
  IF ~HasHash(d.post, postId)
    THEN Res(d, 404, NoData)
  ELSE IF ~Permitted(d.post[postId], userId, user)
    THEN Res(d, 403, NoData)
  ELSE Res([UpdateWrites(d, d.post[postId], postId, now, body) EXCEPT
              !.post = Hset(@, postId,
                            [Updates(d.post[postId], now, body) EXCEPT
                               !.authorName = AuthorName(user)])],
           200,
           PostView(d, [Updates(d.post[postId], now, body) EXCEPT
                          !.authorName = AuthorName(user)],
                    IF Truthy(body.tags)
                      THEN body.tags
                      ELSE JSONParse(d.post[postId].tags)))

handleUpdatePost(d, postId, now, userId, user, body) ==
  IF ~HasHash(d.post, postId)
    THEN Res(d, 404, NoData)
  ELSE IF ~Permitted(d.post[postId], userId, user)
    THEN Res(d, 403, NoData)
  ELSE Res(UpdateWrites(d, d.post[postId], postId, now, body), 200,
           PostView(d, Updates(d.post[postId], now, body),
                    IF Truthy(body.tags)
                      THEN body.tags
                      ELSE JSONParse(d.post[postId].tags)))

\* the tag index after deletePost's loop over the stored tags
DeleteTagIndex(d, postData, postId) ==
  SremEach(d.tag, JSONParse(postData.tags).v, postId)

\* deletePost's sweep stopping after the first bookmark set
DeleteBookmarks_FirstKeyOnly(d, postId) ==
  IF Keys(d.bookmarks) = {}
    THEN d.bookmarks
    ELSE SremAll(d.bookmarks, {CHOOSE k \in Keys(d.bookmarks) : TRUE}, postId)

\* the bookmark sets after deletePost's sweep over user:*:bookmarks
DeleteBookmarks(d, postId) == SremAll(d.bookmarks, Keys(d.bookmarks), postId)

\* deletePost's writes: the record, the global list, the author's list, the
\* category set, the tag sets, the likes set, the comments list, the bookmarks
\* deletePost deleting the comment records of the post as well
DeleteWrites_WithComments(d, postData, postId) ==
  [d EXCEPT !.post = DelHash(@, postId),
            !.posts = Lrem(@, postId),
            !.userPosts = LremAt(@, postData.authorId, postId),
            !.category = Srem(@, Template(postData.category), postId),
            !.tag = DeleteTagIndex(d, postData, postId),
            !.likes = DelSet(@, postId),
            !.postComments = DelHash(@, postId),
            !.comment = [c \in {x \in DOMAIN d.comment : d.comment[x].postId # postId} |->
                           d.comment[c]],
            !.bookmarks = DeleteBookmarks(d, postId)]

DeleteWrites(d, postData, postId) ==
  [d EXCEPT !.post = DelHash(@, postId),
            !.posts = Lrem(@, postId),
            !.userPosts = LremAt(@, postData.authorId, postId),
            !.category = Srem(@, Template(postData.category), postId),
            !.tag = DeleteTagIndex(d, postData, postId),
            !.likes = DelSet(@, postId),
            !.postComments = DelHash(@, postId),
            !.bookmarks = DeleteBookmarks(d, postId)]

\* deletePost clearing the global list and the likes of a post without record
handleDeletePost_Sweeps(d, postId, userId, user) ==
  IF ~HasHash(d.post, postId)
    THEN Res([d EXCEPT !.posts = Lrem(@, postId), !.likes = DelSet(@, postId)],
             404, NoData)
  ELSE IF ~Permitted(d.post[postId], userId, user)
    THEN Res(d, 403, NoData)
  ELSE Res(DeleteWrites(d, d.post[postId], postId), 200, NoData)

handleDeletePost(d, postId, userId, user) ==
  IF ~HasHash(d.post, postId)
    THEN Res(d, 404, NoData)
  ELSE IF ~Permitted(d.post[postId], userId, user)
    THEN Res(d, 403, NoData)
  ELSE Res(DeleteWrites(d, d.post[postId], postId), 200, NoData)

\* a comment as listComments returns it (this function never writes the likes
\* set of a comment, so its cardinality is 0)
CommentView(c) == [id |-> c.id, postId |-> c.postId, content |-> c.content,
                   authorId |-> c.authorId, authorName |-> c.authorName,
                   createdAt |-> c.createdAt, likes |-> 0]

\* the comments of a list of ids, the ids without a record left out
CommentViews(d, ids) ==
  [i \in 1..Len(ids) |-> CommentView(d.comment[ids[i]])]

handleGetComments(d, postId) ==
  IF ~HasHash(d.post, postId)
    THEN Res(d, 404, NoData)
    ELSE Res(d, 200,
             CommentViews(d, SelectSeq(ListAt(d.postComments, postId),
                                       LAMBDA id : HasHash(d.comment, id))))

\* the record addComment writes
NewComment(postId, commentId, now, userId, user, body) ==
  [id |-> commentId, postId |-> postId, content |-> body.content,
   authorId |-> userId, authorName |-> AuthorName(user), createdAt |-> now]

\* addComment forgetting the post's list
CommentWrites_AuthorListOnly(d, comment) ==
  [d EXCEPT !.comment = Hset(@, comment.id, comment),
            !.userComments = LpushAt(@, comment.authorId, comment.id)]

\* addComment's writes: the record, the post's list, the author's list
CommentWrites(d, comment) ==
  [d EXCEPT !.comment = Hset(@, comment.id, comment),
            !.postComments = LpushAt(@, comment.postId, comment.id),
            !.userComments = LpushAt(@, comment.authorId, comment.id)]

handleCreateComment(d, postId, commentId, now, userId, user, body) ==
  IF ~HasHash(d.post, postId)
    THEN Res(d, 404, NoData)
  ELSE IF ~Truthy(body.content)
    THEN Res(d, 400, NoData)
  ELSE Res(CommentWrites(d, NewComment(postId, commentId, now, userId, user, body)),
           201,
           CommentView(NewComment(postId, commentId, now, userId, user, body)))

\* setLike keeping the likes of a post as one value, the last liker
LikeWrite_LastWriterWins(d, postId, userId, action) ==
  IF action = Str(<<"like">>) THEN Sadd(DelSet(d.likes, postId), postId, userId)
  ELSE IF action = Str(<<"unlike">>) THEN Srem(d.likes, postId, userId)
  ELSE d.likes

\* setLike toggling the membership whatever the action
LikeWrite_Toggle(d, postId, userId, action) ==
  IF Sismember(d.likes, postId, userId)
    THEN Srem(d.likes, postId, userId)
    ELSE Sadd(d.likes, postId, userId)

\* the likes sets after setLike's write
LikeWrite(d, postId, userId, action) ==
  IF action = Str(<<"like">>) THEN Sadd(d.likes, postId, userId)
  ELSE IF action = Str(<<"unlike">>) THEN Srem(d.likes, postId, userId)
  ELSE d.likes

\* setLike's answer: the count read after the write, and the requested state
LikeAnswer(likes, postId, action) ==
  [likes |-> Scard(likes, postId), isLiked |-> (action = Str(<<"like">>))]

handleLikePost(d, postId, userId, body) ==
  IF ~HasHash(d.post, postId)
    THEN Res(d, 404, NoData)
    ELSE Res([d EXCEPT !.likes =
                LikeWrite(d, postId, userId, Default(body.action, Str(<<"like">>)))],
             200,
             LikeAnswer(LikeWrite(d, postId, userId, Default(body.action, Str(<<"like">>))),
                        postId, Default(body.action, Str(<<"like">>))))

\* the bookmark sets after setBookmark's write
\* setBookmark taking a bookmark for a toggle
BookmarkWrite_Toggle(d, postId, userId, action) ==
  IF action = Str(<<"bookmark">>)
    THEN (IF Sismember(d.bookmarks, userId, postId)
            THEN Srem(d.bookmarks, userId, postId)
            ELSE Sadd(d.bookmarks, userId, postId))
  ELSE IF action = Str(<<"unbookmark">>) THEN Srem(d.bookmarks, userId, postId)
  ELSE d.bookmarks

BookmarkWrite(d, postId, userId, action) ==
  IF action = Str(<<"bookmark">>) THEN Sadd(d.bookmarks, userId, postId)
  ELSE IF action = Str(<<"unbookmark">>) THEN Srem(d.bookmarks, userId, postId)
  ELSE d.bookmarks

\* setBookmark's answer: the requested state
BookmarkAnswer(action) == [isBookmarked |-> (action = Str(<<"bookmark">>))]

\* setBookmark without the look-up of the post
handleBookmarkPost_Unchecked(d, postId, userId, body) ==
  Res([d EXCEPT !.bookmarks =
         BookmarkWrite(d, postId, userId, Default(body.action, Str(<<"bookmark">>)))],
      200, BookmarkAnswer(Default(body.action, Str(<<"bookmark">>))))

handleBookmarkPost(d, postId, userId, body) ==
  IF ~HasHash(d.post, postId)
    THEN Res(d, 404, NoData)
    ELSE Res([d EXCEPT !.bookmarks =
                BookmarkWrite(d, postId, userId,
                              Default(body.action, Str(<<"bookmark">>)))],
             200, BookmarkAnswer(Default(body.action, Str(<<"bookmark">>))))

(***************************************************************************)
(* listPosts: the text operations of its filters, then the handler.        *)
(***************************************************************************)
\* String.prototype.toLowerCase, symbol by symbol
LowerSym(c) ==
  CASE c = "T" -> "t"
    [] c = "C" -> "c"
    [] OTHER -> c
ToLowerCase(s) == [i \in 1..Len(s) |-> LowerSym(s[i])]

\* String.prototype.includes
Includes(s, sub) ==
  \E i \in 0..(Len(s) - Len(sub)) : SubSeq(s, i + 1, i + Len(sub)) = sub

\* String.prototype.trim: the symbols from the first to the last that is not
\* whitespace
Trim(s) ==
  IF \A i \in 1..Len(s) : s[i] = " "
    THEN <<>>
    ELSE SubSeq(s,
                CHOOSE i \in 1..Len(s) :
                  s[i] # " " /\ \A j \in 1..(i - 1) : s[j] = " ",
                CHOOSE i \in 1..Len(s) :
                  s[i] # " " /\ \A j \in (i + 1)..Len(s) : s[j] = " ")

\* String.prototype.split(','): the pieces between the commas
CommaAt(s) == {i \in 1..Len(s) : s[i] = ","}
Split(s) ==
  {SubSeq(s, i + 1, j - 1) :
     <<i, j>> \in {b \in (CommaAt(s) \cup {0}) \X (CommaAt(s) \cup {Len(s) + 1}) :
                     b[1] < b[2] /\ \A k \in CommaAt(s) : ~(b[1] < k /\ k < b[2])}}

\* tags.split(',').map(trim), as the set includes() searches
TagArray(tags) == {Trim(piece) : piece \in Split(tags)}

\* the comparator of the final sort (a date that does not parse compares as 0)
SortKey(post, sortBy) ==
  CASE sortBy = Str(<<"likes">>) -> post.likes
    [] sortBy = Str(<<"comments">>) -> post.comments
    [] sortBy = Str(<<"createdAt">>) -> post.createdAt
    [] sortBy = Str(<<"updatedAt">>) -> post.updatedAt
    [] OTHER -> 0
\* the comparator taking every order for ascending
Compare_Ascending(a, b, sortBy, sortOrder) ==
  SortKey(a, sortBy) - SortKey(b, sortBy)

Compare(a, b, sortBy, sortOrder) ==
  IF sortOrder = Str(<<"desc">>)
    THEN SortKey(b, sortBy) - SortKey(a, sortBy)
    ELSE SortKey(a, sortBy) - SortKey(b, sortBy)

\* Array.prototype.sort, which is stable: an entry comes after the entries the
\* comparator puts before it and after the earlier entries it ties with
Rank(s, i, sortBy, sortOrder) ==
  1 + Cardinality({j \in 1..Len(s) :
                     \/ Compare(s[j], s[i], sortBy, sortOrder) < 0
                     \/ Compare(s[j], s[i], sortBy, sortOrder) = 0 /\ j < i})
Sort(s, sortBy, sortOrder) ==
  [r \in 1..Len(s) |-> s[CHOOSE i \in 1..Len(s) : Rank(s, i, sortBy, sortOrder) = r]]

\* one entry of listPosts
ListView(d, rec, userId) ==
  [id |-> rec.id, title |-> rec.title, content |-> rec.content,
   category |-> rec.category, tags |-> JSONParse(rec.tags),
   authorId |-> rec.authorId, authorName |-> rec.authorName,
   createdAt |-> rec.createdAt, updatedAt |-> rec.updatedAt,
   likes |-> Scard(d.likes, rec.id),
   comments |-> Len(ListAt(d.postComments, rec.id)),
   isLiked |-> (userId # "" /\ Sismember(d.likes, rec.id, userId)),
   isBookmarked |-> (userId # "" /\ Sismember(d.bookmarks, userId, rec.id))]

\* the entries of the global list whose record exists, in the list's order
ListViews(d, ids, userId) ==
  [i \in 1..Len(ids) |-> ListView(d, d.post[ids[i]], userId)]
\* listPosts giving up its entries when a record of the global list is missing
Loaded_NoneWhenMissing(d, userId) ==
  ListViews(d, IF \A i \in 1..Len(d.posts) : HasHash(d.post, d.posts[i])
                 THEN d.posts ELSE <<>>, userId)

Loaded(d, userId) ==
  ListViews(d, SelectSeq(d.posts, LAMBDA id : HasHash(d.post, id)), userId)

\* the tags filter looking at the first tag of a post only
PassesTags_FirstTagOnly(p, q) ==
  Truthy(q.tags) =>
    (p.tags.v # <<>> /\ <<p.tags.v[1]>> \in TagArray(q.tags.v))

\* the search and category filters
PassesSearch(p, q) ==
  Truthy(q.search) =>
    \/ Includes(ToLowerCase(p.title.v), ToLowerCase(q.search.v))
    \/ Includes(ToLowerCase(p.content.v), ToLowerCase(q.search.v))
PassesCategory(p, q) == Truthy(q.category) => p.category = q.category
\* the tags filter: post.tags.some(tag => tagArray.includes(tag))
PassesTags(p, q) ==
  Truthy(q.tags) =>
    \E i \in 1..Len(p.tags.v) : <<p.tags.v[i]>> \in TagArray(q.tags.v)
\* the bookmarked filter reading the likes of the post
PassesBookmarked_ByLikes(d, p, q) ==
  (q.bookmarked = Str(<<"true">>) /\ q.userId # "") =>
    q.userId \in Smembers(d.likes, p.id)

\* the bookmarked filter applied whether or not the request names a caller
PassesBookmarked_NoCaller(d, p, q) ==
  q.bookmarked = Str(<<"true">>) => p.id \in Smembers(d.bookmarks, q.userId)

\* the bookmarked filter
PassesBookmarked(d, p, q) ==
  (q.bookmarked = Str(<<"true">>) /\ q.userId # "") =>
    p.id \in Smembers(d.bookmarks, q.userId)

\* some() is a method of arrays only: the tags filter throws on an entry
\* that has reached it with tags that are no array
TagsFilterThrows(d, q) ==
  /\ Truthy(q.tags)
  /\ \E i \in 1..Len(Loaded(d, q.userId)) :
       /\ PassesSearch(Loaded(d, q.userId)[i], q)
       /\ PassesCategory(Loaded(d, q.userId)[i], q)
       /\ Loaded(d, q.userId)[i].tags.t # "array"

handleGetPosts(d, q) ==
  IF TagsFilterThrows(d, q)
    THEN Res(d, 500, NoData)
    ELSE Res(d, 200,
             Sort(SelectSeq(Loaded(d, q.userId),
                            LAMBDA p : /\ PassesSearch(p, q)
                                       /\ PassesCategory(p, q)
                                       /\ PassesTags(p, q)
                                       /\ PassesBookmarked(d, p, q)),
                  Default(q.sortBy, Str(<<"createdAt">>)),
                  Default(q.sortOrder, Str(<<"desc">>))))

(***************************************************************************)
(* exports.handler: the route of a request, then the whole request.        *)
(***************************************************************************)
NoPost == ""

\* the handler a request reaches once it is authenticated, and the post id
\* that handler is given
Route(method, path) ==
  LET resource == path[Len(path)]
      postId == IF resource # "community" THEN resource ELSE NoPost
      isCommentsEndpoint == "comments" \in Range(path)
      to(h) == [handler |-> h, postId |-> postId]
  IN  CASE method = "GET" ->
             IF postId = NoPost THEN to("handleGetPosts")
             ELSE IF isCommentsEndpoint THEN to("handleGetComments")
             ELSE to("handleGetPost")
        [] method = "POST" ->
             IF postId = NoPost THEN to("handleCreatePost")
             ELSE IF isCommentsEndpoint THEN to("handleCreateComment")
             ELSE IF "like" \in Range(path) THEN to("handleLikePost")
             ELSE IF "bookmark" \in Range(path) THEN to("handleBookmarkPost")
             ELSE to("none")
        [] method = "PUT" ->
             IF postId # NoPost THEN to("handleUpdatePost") ELSE to("none")
        [] method = "DELETE" ->
             IF postId # NoPost THEN to("handleDeletePost") ELSE to("none")
        [] OTHER -> to("none")

Req(method, path, cred, body, query) ==
  [method |-> method, path |-> path, cred |-> cred, body |-> body, query |-> query]

\* the operation that serves a request: a read is served unauthenticated, a
\* write after authenticateUser and getUserData
Operation(d, req) ==
  IF req.method = "GET" THEN Route(req.method, req.path).handler
  ELSE IF req.cred = NoToken THEN "authenticateUser"
  ELSE IF ~HasHash(d.user, req.cred) THEN "getUserData"
  ELSE Route(req.method, req.path).handler

\* the post id exports.handler hands to the operation
PostIdOf(req) == Route(req.method, req.path).postId

\* a failed authentication answered as a refused permission
Unauthorized_AsForbidden(d) == Res(d, 403, NoData)

\* the answer to a request whose authentication has failed
Unauthorized(d) == Res(d, 401, NoData)

\* the result of one request
Serve(d, req, newPostId, newCommentId, now) ==
  CASE Operation(d, req) = "handleGetPosts" -> handleGetPosts(d, req.query)
    [] Operation(d, req) = "handleGetComments" -> handleGetComments(d, PostIdOf(req))
    [] Operation(d, req) = "handleGetPost" -> handleGetPost(d, PostIdOf(req))
    [] Operation(d, req) = "authenticateUser" -> Unauthorized(d)
    [] Operation(d, req) = "getUserData" -> Res(d, 500, NoData)
    [] Operation(d, req) = "handleCreatePost" ->
         handleCreatePost(d, newPostId, now, req.cred, d.user[req.cred], req.body)
    [] Operation(d, req) = "handleCreateComment" ->
         handleCreateComment(d, PostIdOf(req), newCommentId, now, req.cred,
                             d.user[req.cred], req.body)
    [] Operation(d, req) = "handleLikePost" ->
         handleLikePost(d, PostIdOf(req), req.cred, req.body)
    [] Operation(d, req) = "handleBookmarkPost" ->
         handleBookmarkPost(d, PostIdOf(req), req.cred, req.body)
    [] Operation(d, req) = "handleUpdatePost" ->
         handleUpdatePost(d, PostIdOf(req), now, req.cred, d.user[req.cred], req.body)
    [] Operation(d, req) = "handleDeletePost" ->
         handleDeletePost(d, PostIdOf(req), req.cred, d.user[req.cred])
    [] OTHER -> Res(d, 404, NoData)

(***************************************************************************)
(* The store commands a request issues, in the order of its awaits.  A     *)
(* program is the commands before a Promise.all, the commands of each      *)
(* callback of the Promise.all (fan), and the commands after it.           *)
(***************************************************************************)
\* one command: its name, the family and the name of its key, its argument
Cmd(c, family, name, arg) == [c |-> c, family |-> family, name |-> name, arg |-> arg]
Read(c, family, name) == Cmd(c, family, name, "")
IsWrite(cmd) == cmd.c \in {"hset", "lpush", "lrem", "sadd", "srem", "del"}

\* lrem emptying the list it is applied to
Apply_LremClears(d, cmd) ==
  CASE cmd.c = "hset" -> [d EXCEPT ![cmd.family] = Hset(@, cmd.name, cmd.arg)]
    [] cmd.c = "lpush" /\ cmd.family = "posts" -> [d EXCEPT !.posts = Lpush(@, cmd.arg)]
    [] cmd.c = "lpush" /\ cmd.family # "posts" ->
         [d EXCEPT ![cmd.family] = LpushAt(@, cmd.name, cmd.arg)]
    [] cmd.c = "lrem" /\ cmd.family = "posts" -> [d EXCEPT !.posts = <<>>]
    [] cmd.c = "lrem" /\ cmd.family # "posts" ->
         [d EXCEPT ![cmd.family] = DelHash(@, cmd.name)]
    [] cmd.c = "sadd" -> [d EXCEPT ![cmd.family] = Sadd(@, cmd.name, cmd.arg)]
    [] cmd.c = "srem" -> [d EXCEPT ![cmd.family] = Srem(@, cmd.name, cmd.arg)]
    [] cmd.c = "del" /\ cmd.family = "likes" -> [d EXCEPT !.likes = DelSet(@, cmd.name)]
    [] cmd.c = "del" /\ cmd.family # "likes" ->
         [d EXCEPT ![cmd.family] = DelHash(@, cmd.name)]
    [] OTHER -> d

\* the store after one command
Apply(d, cmd) ==
  CASE cmd.c = "hset" -> [d EXCEPT ![cmd.family] = Hset(@, cmd.name, cmd.arg)]
    [] cmd.c = "lpush" /\ cmd.family = "posts" -> [d EXCEPT !.posts = Lpush(@, cmd.arg)]
    [] cmd.c = "lpush" /\ cmd.family # "posts" ->
         [d EXCEPT ![cmd.family] = LpushAt(@, cmd.name, cmd.arg)]
    [] cmd.c = "lrem" /\ cmd.family = "posts" -> [d EXCEPT !.posts = Lrem(@, cmd.arg)]
    [] cmd.c = "lrem" /\ cmd.family # "posts" ->
         [d EXCEPT ![cmd.family] = LremAt(@, cmd.name, cmd.arg)]
    [] cmd.c = "sadd" -> [d EXCEPT ![cmd.family] = Sadd(@, cmd.name, cmd.arg)]
    [] cmd.c = "srem" -> [d EXCEPT ![cmd.family] = Srem(@, cmd.name, cmd.arg)]
    [] cmd.c = "del" /\ cmd.family = "likes" -> [d EXCEPT !.likes = DelSet(@, cmd.name)]
    [] cmd.c = "del" /\ cmd.family # "likes" ->
         [d EXCEPT ![cmd.family] = DelHash(@, cmd.name)]
    [] OTHER -> d

\* the store after a sequence of commands
RECURSIVE Run(_, _)
Run(d, cmds) ==
  IF Len(cmds) = 0 THEN d ELSE Run(Apply(d, Head(cmds)), Tail(cmds))

\* one command per item of a sequence
Each(c, family, names, arg) == [i \in 1..Len(names) |-> Cmd(c, family, names[i], arg)]

\* a program without a Promise.all
Program(before, fan, after) == [before |-> before, fan |-> fan, after |-> after]
Sequential(cmds) == Program(cmds, <<>>, <<>>)
\* a program that follows the commands of an earlier part of the request
After(cmds, program) == [program EXCEPT !.before = cmds \o @]

RECURSIVE Concat(_)
Concat(seqs) == IF Len(seqs) = 0 THEN <<>> ELSE Head(seqs) \o Concat(Tail(seqs))
\* the commands of a program that runs to its end
AllCommands(program) == program.before \o Concat(program.fan) \o program.after

\* createPost: the record, the global list, the author's list, the category
\* set, the tag sets
\* createPost entering the post in the global list before writing its record
CreateCommands_ListFirst(post, tags) ==
  <<Cmd("lpush", "posts", "", post.id),
    Cmd("hset", "post", post.id, post),
    Cmd("lpush", "userPosts", post.authorId, post.id),
    Cmd("sadd", "category", Template(post.category), post.id)>>
  \o (IF Iterable(tags) THEN Each("sadd", "tag", tags.v, post.id) ELSE <<>>)

CreateCommands(post, tags) ==
  <<Cmd("hset", "post", post.id, post),
    Cmd("lpush", "posts", "", post.id),
    Cmd("lpush", "userPosts", post.authorId, post.id),
    Cmd("sadd", "category", Template(post.category), post.id)>>
  \o (IF Iterable(tags) THEN Each("sadd", "tag", tags.v, post.id) ELSE <<>>)

CreatePostProgram(d, postId, now, userId, user, body) ==
  IF ~Truthy(body.title) \/ ~Truthy(body.content)
    THEN Sequential(<<>>)
    ELSE Sequential(CreateCommands(NewPost(postId, now, userId, user, body),
                                   Default(body.tags, Arr(<<>>))))

\* updatePost adding the post to the new category set before removing it from
\* the old one
UpdateCommands_AddFirst(d, postData, postId, now, body) ==
  (IF CategoryChanges(postData, body)
     THEN <<Cmd("sadd", "category", Template(body.category), postId),
            Cmd("srem", "category", Template(postData.category), postId)>>
     ELSE <<>>)
  \o (IF Truthy(body.tags)
        THEN Each("srem", "tag", JSONParse(postData.tags).v, postId)
             \o Each("sadd", "tag", body.tags.v, postId)
        ELSE <<>>)
  \o <<Cmd("hset", "post", postId, Updates(postData, now, body)),
       Read("scard", "likes", postId),
       Read("llen", "postComments", postId)>>

UpdateCommands(d, postData, postId, now, body) ==
  (IF CategoryChanges(postData, body)
     THEN <<Cmd("srem", "category", Template(postData.category), postId),
            Cmd("sadd", "category", Template(body.category), postId)>>
     ELSE <<>>)
  \o (IF Truthy(body.tags)
        THEN Each("srem", "tag", JSONParse(postData.tags).v, postId)
             \o Each("sadd", "tag", body.tags.v, postId)
        ELSE <<>>)
  \o <<Cmd("hset", "post", postId, Updates(postData, now, body)),
       Read("scard", "likes", postId),
       Read("llen", "postComments", postId)>>

UpdatePostProgram(d, postId, now, userId, user, body) ==
  IF ~HasHash(d.post, postId) \/ ~Permitted(d.post[postId], userId, user)
    THEN Sequential(<<Read("hgetall", "post", postId)>>)
    ELSE Sequential(<<Read("hgetall", "post", postId)>>
                    \o UpdateCommands(d, d.post[postId], postId, now, body))

\* keyOrder: the order in which redis.keys returns the bookmark sets
DeleteCommands(postData, postId, keyOrder) ==
  <<Cmd("del", "post", postId, ""),
    Cmd("lrem", "posts", "", postId),
    Cmd("lrem", "userPosts", postData.authorId, postId),
    Cmd("srem", "category", Template(postData.category), postId)>>
  \o Each("srem", "tag", JSONParse(postData.tags).v, postId)
  \o <<Cmd("del", "likes", postId, ""),
       Cmd("del", "postComments", postId, ""),
       Read("keys", "bookmarks", "*")>>
  \o Each("srem", "bookmarks", keyOrder, postId)

DeletePostProgram(d, postId, userId, user, keyOrder) ==
  IF ~HasHash(d.post, postId) \/ ~Permitted(d.post[postId], userId, user)
    THEN Sequential(<<Read("hgetall", "post", postId)>>)
    ELSE Sequential(<<Read("hgetall", "post", postId)>>
                    \o DeleteCommands(d.post[postId], postId, keyOrder))

GetPostProgram(d, postId) ==
  IF ~HasHash(d.post, postId)
    THEN Sequential(<<Read("hgetall", "post", postId)>>)
    ELSE Sequential(<<Read("hgetall", "post", postId),
                      Read("scard", "likes", postId),
                      Read("llen", "postComments", postId)>>)

\* the callback of listPosts for one id of the global list
ListCallback(d, id, userId) ==
  <<Read("hgetall", "post", id)>>
  \o (IF HasHash(d.post, id)
        THEN <<Read("scard", "likes", id), Read("llen", "postComments", id)>>
             \o (IF userId # ""
                   THEN <<Read("sismember", "likes", id),
                          Read("sismember", "bookmarks", userId)>>
                   ELSE <<>>)
        ELSE <<>>)

GetPostsProgram(d, q) ==
  Program(<<Read("lrange", "posts", "")>>,
          [i \in 1..Len(d.posts) |-> ListCallback(d, d.posts[i], q.userId)],
          IF /\ Len(d.posts) > 0
             /\ ~TagsFilterThrows(d, q)
             /\ q.bookmarked = Str(<<"true">>)
             /\ q.userId # ""
            THEN <<Read("smembers", "bookmarks", q.userId)>>
            ELSE <<>>)

\* the callback of listComments for one id of the post's list
CommentCallback(d, id) ==
  <<Read("hgetall", "comment", id)>>
  \o (IF HasHash(d.comment, id) THEN <<Read("scard", "commentLikes", id)>> ELSE <<>>)

GetCommentsProgram(d, postId) ==
  IF ~HasHash(d.post, postId)
    THEN Sequential(<<Read("hgetall", "post", postId)>>)
    ELSE Program(<<Read("hgetall", "post", postId), Read("lrange", "postComments", postId)>>,
                 [i \in 1..Len(ListAt(d.postComments, postId)) |->
                    CommentCallback(d, ListAt(d.postComments, postId)[i])],
                 <<>>)

CommentCommands(comment) ==
  <<Cmd("hset", "comment", comment.id, comment),
    Cmd("lpush", "postComments", comment.postId, comment.id),
    Cmd("lpush", "userComments", comment.authorId, comment.id)>>

CreateCommentProgram(d, postId, commentId, now, userId, user, body) ==
  IF ~HasHash(d.post, postId) \/ ~Truthy(body.content)
    THEN Sequential(<<Read("hgetall", "post", postId)>>)
    ELSE Sequential(<<Read("hgetall", "post", postId)>>
                    \o CommentCommands(NewComment(postId, commentId, now, userId, user, body)))

\* the sadd or srem of setLike and setBookmark
MembershipCommand(family, name, member, action, add, remove) ==
  IF action = Str(<<add>>) THEN <<Cmd("sadd", family, name, member)>>
  ELSE IF action = Str(<<remove>>) THEN <<Cmd("srem", family, name, member)>>
  ELSE <<>>

LikePostProgram(d, postId, userId, body) ==
  IF ~HasHash(d.post, postId)
    THEN Sequential(<<Read("hgetall", "post", postId)>>)
    ELSE Sequential(<<Read("hgetall", "post", postId)>>
                    \o MembershipCommand("likes", postId, userId,
                                         Default(body.action, Str(<<"like">>)),
                                         "like", "unlike")
                    \o <<Read("scard", "likes", postId)>>)

BookmarkPostProgram(d, postId, userId, body) ==
  IF ~HasHash(d.post, postId)
    THEN Sequential(<<Read("hgetall", "post", postId)>>)
    ELSE Sequential(<<Read("hgetall", "post", postId)>>
                    \o MembershipCommand("bookmarks", userId, postId,
                                         Default(body.action, Str(<<"bookmark">>)),
                                         "bookmark", "unbookmark"))

\* the commands of getUserData
GetUserCommands(cred) == <<Read("get", "user", cred)>>

\* a command of a program: the part, the callback of the fan, the place in it;
\* later counts the commands the request issues after this one has failed
Point(part, thread, step) == [part |-> part, thread |-> thread, step |-> step, later |-> 0]
NoFault == Point("none", 0, 0)

\* the commands of a program that can fail
FailurePoints(program) ==
  {Point("before", 0, k) : k \in 1..Len(program.before)}
    \cup UNION {{Point("fan", i, k) : k \in 1..Len(program.fan[i])} :
                 i \in 1..Len(program.fan)}
    \cup {Point("after", 0, k) : k \in 1..Len(program.after)}

\* the commands that have succeeded on the path to the command at a point (the
\* callbacks of a fan issue reads only, in no order among them)
Preceding(program, at) ==
  CASE at.part = "before" -> SubSeq(program.before, 1, at.step - 1)
    [] at.part = "fan" ->
         program.before \o SubSeq(program.fan[at.thread], 1, at.step - 1)
    [] OTHER ->
         program.before \o Concat(program.fan) \o SubSeq(program.after, 1, at.step - 1)

\* a thrown store error undoing the writes of the request
StoreAt_RolledBack(d, program, at) == d

\* the store when the command at a point throws: the error passes through the
\* catch of the handler, which rethrows, to the catch of exports.handler
StoreAt(d, program, at) == Run(d, Preceding(program, at))

\* Promise.all rejects with the first failure and leaves the other callbacks
\* running: each has issued its first command and may issue the rest
LaterMax(program, at) ==
  IF at.part = "fan"
    THEN Len(Concat(program.fan)) - Len(program.fan[at.thread]) - (Len(program.fan) - 1)
    ELSE 0

\* the orders in which redis.keys can return the bookmark sets
KeyOrders(d) ==
  {o \in [1..Cardinality(Keys(d.bookmarks)) -> Keys(d.bookmarks)] :
     \A i, j \in DOMAIN o : i # j => o[i] # o[j]}

\* the program of one request
RequestProgram(d, req, newPostId, newCommentId, now, keyOrder) ==
  CASE Operation(d, req) = "handleGetPosts" -> GetPostsProgram(d, req.query)
    [] Operation(d, req) = "handleGetComments" -> GetCommentsProgram(d, PostIdOf(req))
    [] Operation(d, req) = "handleGetPost" -> GetPostProgram(d, PostIdOf(req))
    [] Operation(d, req) = "authenticateUser" -> Sequential(<<>>)
    [] Operation(d, req) = "getUserData" -> Sequential(GetUserCommands(req.cred))
    [] Operation(d, req) = "handleCreatePost" ->
         After(GetUserCommands(req.cred),
               CreatePostProgram(d, newPostId, now, req.cred, d.user[req.cred], req.body))
    [] Operation(d, req) = "handleCreateComment" ->
         After(GetUserCommands(req.cred),
               CreateCommentProgram(d, PostIdOf(req), newCommentId, now, req.cred,
                                    d.user[req.cred], req.body))
    [] Operation(d, req) = "handleLikePost" ->
         After(GetUserCommands(req.cred),
               LikePostProgram(d, PostIdOf(req), req.cred, req.body))
    [] Operation(d, req) = "handleBookmarkPost" ->
         After(GetUserCommands(req.cred),
               BookmarkPostProgram(d, PostIdOf(req), req.cred, req.body))
    [] Operation(d, req) = "handleUpdatePost" ->
         After(GetUserCommands(req.cred),
               UpdatePostProgram(d, PostIdOf(req), now, req.cred, d.user[req.cred],
                                 req.body))
    [] Operation(d, req) = "handleDeletePost" ->
         After(GetUserCommands(req.cred),
               DeletePostProgram(d, PostIdOf(req), req.cred, d.user[req.cred], keyOrder))
    [] OTHER -> Sequential(GetUserCommands(req.cred))

(***************************************************************************)
(* State: the store (db), the last request with its response (resp), the   *)
(* number of the next id nanoid() returns, and the instant new Date()      *)
(* returns.  likeCalls and bookmarkCalls hold, per caller, the setLike and *)
(* setBookmark invocation that is between two of its awaits.  fault is the *)
(* store command whose failure ended the last request, if one did, and     *)
(* faults the number of requests a store failure has ended.  running holds *)
(* the invocations that run command by command, each with what it has     *)
(* read so far, and base the store when the first of them began.           *)
(***************************************************************************)
Body(title, content, category, tags, action) ==
  [title |-> title, content |-> content, category |-> category, tags |-> tags,
   action |-> action]
NoBody == Body(Undefined, Undefined, Undefined, Undefined, Undefined)

Query(search, category, tags, bookmarked, userId, sortBy, sortOrder) ==
  [search |-> search, category |-> category, tags |-> tags,
   bookmarked |-> bookmarked, userId |-> userId, sortBy |-> sortBy,
   sortOrder |-> sortOrder]
NoQuery == Query(Undefined, Undefined, Undefined, Undefined, "", Undefined, Undefined)

EmptyStore ==
  [post |-> <<>>, posts |-> <<>>, userPosts |-> <<>>, category |-> {}, tag |-> {},
   likes |-> {}, postComments |-> <<>>, comment |-> <<>>, userComments |-> <<>>,
   bookmarks |-> {}, user |-> InitialProfiles]

\* the invocations that run command by command beside each other
CallIds == {"first", "second"}

\* an invocation between two of its awaits: its request, the ids nanoid() and
\* the instant new Date() give it, the number of commands it has completed,
\* the store as its reads have shown it and the keys redis.keys returned
Call(req, newPostId, newCommentId, now) ==
  [pc |-> "running", req |-> req, newPostId |-> newPostId,
   newCommentId |-> newCommentId, now |-> now, done |-> 0, view |-> EmptyStore,
   keyOrder |-> <<>>]
NoCall == [Call(Req("", <<>>, NoToken, NoBody, NoQuery), NoPost, "", 0) EXCEPT !.pc = "idle"]

\* an invocation: where it stands, the post and the action of its request, and
\* its answer once it has returned
Idle == [pc |-> "idle", postId |-> NoPost, action |-> Undefined, status |-> 0, likes |-> 0]

Init ==
  /\ db = EmptyStore
  /\ resp = [op |-> "init", req |-> Req("", <<>>, NoToken, NoBody, NoQuery),
             postId |-> NoPost, status |-> 0, data |-> NoData]
  /\ nextPost = 1
  /\ nextComment = 1
  /\ clock = 0
  /\ likeCalls = [u \in Users |-> Idle]
  /\ bookmarkCalls = [u \in Users |-> Idle]
  /\ fault = NoFault
  /\ faults = 0
  /\ running = [c \in CallIds |-> NoCall]
  /\ base = EmptyStore

\* the ids nanoid() has returned for posts so far
IssuedPosts == {PostIdPool[i] : i \in 1..(nextPost - 1)}

\* the request paths: the collection and a post; a post with the word k after
\* its id (the shape the page sends) or before it
PostPaths ==
  {<<"community">>} \cup {<<"community", id>> : id \in IssuedPosts}
SuffixPaths(k) == {<<"community", id, k>> : id \in IssuedPosts}
PrefixPaths(k) == {<<"community", k, id>> : id \in IssuedPosts}

\* did the request make nanoid() name a post, a comment
MadePost(op, status) == op = "handleCreatePost" /\ status # 400
MadeComment(op, status) == op = "handleCreateComment" /\ status = 201

\* one request served by operation op
Step(req, op) ==
  /\ Operation(db, req) = op
  /\ \E o \in {Serve(db, req, PostIdPool[nextPost], CommentIdPool[nextComment], clock)} :
       /\ MadePost(op, o.status) => nextPost <= MaxPosts
       /\ MadeComment(op, o.status) => nextComment <= MaxComments
       /\ db' = o.db
       /\ resp' = [op |-> op, req |-> req, postId |-> PostIdOf(req),
                   status |-> o.status, data |-> o.data]
       /\ nextPost' = IF MadePost(op, o.status) THEN nextPost + 1 ELSE nextPost
       /\ nextComment' = IF MadeComment(op, o.status) THEN nextComment + 1 ELSE nextComment
       /\ fault' = NoFault
       /\ UNCHANGED <<clock, likeCalls, bookmarkCalls, faults,
                    running, base>>

GetPosts(paths, queries) ==
  \E path \in paths, q \in queries :
    Step(Req("GET", path, NoToken, NoBody, q), "handleGetPosts")

GetPost(paths) ==
  \E path \in paths :
    Step(Req("GET", path, NoToken, NoBody, NoQuery), "handleGetPost")

GetComments(paths) ==
  \E path \in paths :
    Step(Req("GET", path, NoToken, NoBody, NoQuery), "handleGetComments")

CreatePost(paths, creds, bodies) ==
  \E path \in paths, cred \in creds, body \in bodies :
    Step(Req("POST", path, cred, body, NoQuery), "handleCreatePost")

UpdatePost(paths, creds, bodies) ==
  \E path \in paths, cred \in creds, body \in bodies :
    Step(Req("PUT", path, cred, body, NoQuery), "handleUpdatePost")

DeletePost(paths, creds) ==
  \E path \in paths, cred \in creds :
    Step(Req("DELETE", path, cred, NoBody, NoQuery), "handleDeletePost")

CreateComment(paths, creds, bodies) ==
  \E path \in paths, cred \in creds, body \in bodies :
    Step(Req("POST", path, cred, body, NoQuery), "handleCreateComment")

LikePost(paths, creds, bodies) ==
  \E path \in paths, cred \in creds, body \in bodies :
    Step(Req("POST", path, cred, body, NoQuery), "handleLikePost")

BookmarkPost(paths, creds, bodies) ==
  \E path \in paths, cred \in creds, body \in bodies :
    Step(Req("POST", path, cred, body, NoQuery), "handleBookmarkPost")

\* a write request with no credential
Unauthenticated(paths) ==
  \E method \in {"POST", "PUT", "DELETE"}, path \in paths :
    Step(Req(method, path, NoToken, NoBody, NoQuery), "authenticateUser")

\* has the request called nanoid() before the command that fails
MadePostAt(op, at) == op = "handleCreatePost" /\ at.step >= 2
MadeCommentAt(op, at) == op = "handleCreateComment" /\ at.step >= 3

\* a request that ends because one of its store commands fails
StoreFails(reqs) ==
  \E req \in reqs, o \in KeyOrders(db) :
    \E program \in {RequestProgram(db, req, PostIdPool[nextPost],
                                    CommentIdPool[nextComment], clock, o)} :
      \E at \in FailurePoints(program) :
        \E later \in 0..LaterMax(program, at) :
          /\ faults < MaxFaults
          /\ MadePostAt(Operation(db, req), at) => nextPost <= MaxPosts
          /\ MadeCommentAt(Operation(db, req), at) => nextComment <= MaxComments
          /\ db' = StoreAt(db, program, at)
          /\ resp' = [op |-> Operation(db, req), req |-> req, postId |-> PostIdOf(req),
                      status |-> 500, data |-> NoData]
          /\ fault' = [at EXCEPT !.later = later]
          /\ nextPost' = IF MadePostAt(Operation(db, req), at)
                            THEN nextPost + 1 ELSE nextPost
          /\ nextComment' = IF MadeCommentAt(Operation(db, req), at)
                               THEN nextComment + 1 ELSE nextComment
          /\ faults' = faults + 1
          /\ UNCHANGED <<clock, likeCalls, bookmarkCalls, running, base>>

\* the commands of an invocation, as far as its reads have determined them
CallProgram(c) ==
  RequestProgram(c.view, c.req, c.newPostId, c.newCommentId, c.now, c.keyOrder).before

\* the invocation after a command: a read shows it the family it reads, and
\* redis.keys the bookmark sets in the order keyOrder
Seen(c, d, cmd, keyOrder) ==
  [c EXCEPT !.done = @ + 1,
            !.view = IF IsWrite(cmd) \/ cmd.family \notin DOMAIN d
                       THEN @
                       ELSE [c.view EXCEPT ![cmd.family] = d[cmd.family]],
            !.keyOrder = IF cmd.c = "keys" THEN keyOrder ELSE @]

\* has the invocation completed its last command
Finished(c) == c.done = Len(CallProgram(c))

\* the answer of an invocation that has completed its commands
Answer(c) ==
  [op |-> Operation(c.view, c.req), req |-> c.req, postId |-> PostIdOf(c.req),
   status |-> Serve(c.view, c.req, c.newPostId, c.newCommentId, c.now).status,
   data |-> Serve(c.view, c.req, c.newPostId, c.newCommentId, c.now).data]

\* a request arrives and runs beside the invocations in flight
BeginCall(id, reqs) ==
  \E req \in reqs :
    /\ running[id].pc = "idle"
    /\ req.method # "GET"
    /\ req.cred \in Users
    /\ Operation(db, req) = "handleCreatePost" => nextPost <= MaxPosts
    /\ Operation(db, req) = "handleCreateComment" => nextComment <= MaxComments
    /\ running' = [running EXCEPT ![id] =
                     Call(req, PostIdPool[nextPost], CommentIdPool[nextComment], clock)]
    /\ base' = IF \A c \in CallIds : running[c].pc = "idle" THEN db ELSE base
    /\ nextPost' = IF Operation(db, req) = "handleCreatePost"
                     THEN nextPost + 1 ELSE nextPost
    /\ nextComment' = IF Operation(db, req) = "handleCreateComment"
                        THEN nextComment + 1 ELSE nextComment
    /\ UNCHANGED <<db, resp, clock, likeCalls, bookmarkCalls, fault, faults>>

\* an invocation completes its next command, and returns after its last one
CallStep(id) ==
  /\ running[id].pc = "running"
  /\ \E o \in KeyOrders(db) :
       \E cmd \in {CallProgram(running[id])[running[id].done + 1]} :
         \E c \in {Seen(running[id], db, cmd, o)} :
           /\ db' = Apply(db, cmd)
           /\ running' = [running EXCEPT ![id] =
                            IF Finished(c) THEN [c EXCEPT !.pc = "done"] ELSE c]
           /\ resp' = IF Finished(c) THEN Answer(c) ELSE resp
           /\ fault' = IF Finished(c) THEN NoFault ELSE fault
           /\ UNCHANGED <<nextPost, nextComment, clock, likeCalls, bookmarkCalls,
                          faults, base>>

\* the next command of an invocation throws: the invocation ends with the
\* answer of the catch of exports.handler
CallFails(id) ==
  /\ running[id].pc = "running"
  /\ faults < MaxFaults
  /\ running' = [running EXCEPT ![id].pc = "failed"]
  /\ resp' = [op |-> Operation(running[id].view, running[id].req),
              req |-> running[id].req, postId |-> PostIdOf(running[id].req),
              status |-> 500, data |-> NoData]
  /\ fault' = Point("before", 0, running[id].done + 1)
  /\ faults' = faults + 1
  /\ UNCHANGED <<db, nextPost, nextComment, clock, likeCalls, bookmarkCalls, base>>

\* an invocation that has returned is over
CallEnds(id) ==
  /\ running[id].pc \in {"done", "failed"}
  /\ running' = [running EXCEPT ![id] = NoCall]
  /\ UNCHANGED <<db, resp, nextPost, nextComment, clock, likeCalls, bookmarkCalls,
                 fault, faults, base>>

\* the profile record user:<id> gets another display name; the record is
\* written outside these handlers, which read it on every write request
RenameUser(users, names) ==
  \E u \in users, n \in names :
    /\ db.user[u].name # n
    /\ db' = [db EXCEPT !.user[u].name = n]
    /\ UNCHANGED <<resp, nextPost, nextComment, clock, likeCalls, bookmarkCalls,
                   fault, faults,
                    running, base>>

\* a write request whose token names a user without a profile record
UnknownCaller(paths) ==
  \E method \in {"POST", "PUT", "DELETE"}, path \in paths :
    Step(Req(method, path, NoProfile, NoBody, NoQuery), "getUserData")

\* a write request no operation serves
NoEndpoint(paths, creds) ==
  \E method \in {"POST", "PUT", "DELETE"}, path \in paths, cred \in creds :
    Step(Req(method, path, cred, NoBody, NoQuery), "none")

\* time passes
Tick ==
  /\ clock < MaxClock
  /\ clock' = clock + 1
  /\ UNCHANGED <<db, resp, nextPost, nextComment, likeCalls, bookmarkCalls, fault, faults,
                    running, base>>

(***************************************************************************)
(* Spec: posts and their indices.  Posts are created, updated, deleted and *)
(* read, one request at a time.                                            *)
(***************************************************************************)
T == Str(<<"T">>)
C == Str(<<"C">>)
Blank == Str(<<" ">>)
Empty == Str(<<>>)

Authors == {"u1", "u2"}

CreateBodies ==
  {Body(T, C, Undefined, tags, Undefined) :
     tags \in {Undefined, Arr(<<"a", "b">>), Str(<<"a", "b">>), Null}}
    \cup {Body(T, C, Str(<<"idea">>), Arr(<<"a">>), Undefined)}

UpdateBodies ==
  {Body(Str(<<"T", "2">>), Str(<<"C", "2">>), Str(<<"showcase">>), Undefined, Undefined),
   Body(Undefined, Undefined, Str(<<"idea">>), Arr(<<"b">>), Undefined),
   Body(Undefined, Undefined, Undefined, Arr(<<>>), Undefined)}

Next ==
  \/ CreatePost(PostPaths, Authors, CreateBodies)
  \/ UpdatePost(PostPaths, Users, UpdateBodies)
  \/ DeletePost(PostPaths, Users)
  \/ GetPost(PostPaths)

Spec == Init /\ [][Next]_vars

(***************************************************************************)
(* SpecSocial: likes, bookmarks and comments on posts that are created,    *)
(* retitled and deleted, one request at a time.  u1 writes the posts; u2   *)
(* and the administrator react to them.                                    *)
(***************************************************************************)
Readers == {"u2", "adm"}

SocialCreateBodies == {Body(T, C, Undefined, Arr(<<"a">>), Undefined)}

SocialUpdateBodies ==
  {Body(Str(<<"T", "2">>), Undefined, Undefined, Undefined, Undefined)}

SocialCommentBodies == {Body(Undefined, C, Undefined, Undefined, Undefined)}

LikeBodies ==
  {Body(Undefined, Undefined, Undefined, Undefined, a) :
     a \in {Str(<<"like">>), Str(<<"unlike">>)}}

BookmarkBodies ==
  {Body(Undefined, Undefined, Undefined, Undefined, a) :
     a \in {Str(<<"bookmark">>), Str(<<"unbookmark">>)}}

BookmarkQueries ==
  {Query(Undefined, Undefined, Undefined, Str(<<"true">>), u, Undefined, Undefined) :
     u \in Readers}

NextSocial ==
  \/ CreatePost(PostPaths, {"u1"}, SocialCreateBodies)
  \/ UpdatePost(PostPaths, {"u2"}, SocialUpdateBodies)
  \/ DeletePost(PostPaths, Users)
  \/ LikePost(PrefixPaths("like"), Readers, LikeBodies)
  \/ BookmarkPost(PrefixPaths("bookmark"), Readers, BookmarkBodies)
  \/ CreateComment(PrefixPaths("comments"), {"u2"}, SocialCommentBodies)
  \/ GetPosts(PostPaths, BookmarkQueries)
  \/ GetComments(PrefixPaths("comments"))

SpecSocial == Init /\ [][NextSocial]_vars

(***************************************************************************)
(* SpecRequests: the request shapes of the page (the word after the post   *)
(* id) beside the shapes with the id last, and bodies with missing, empty  *)
(* and blank fields, one request at a time.                                *)
(***************************************************************************)
BothPaths(k) == SuffixPaths(k) \cup PrefixPaths(k)

InputCreateBodies ==
  {Body(T, C, Undefined, Undefined, Undefined),
   Body(Undefined, C, Undefined, Undefined, Undefined),
   Body(Empty, C, Undefined, Undefined, Undefined),
   Body(Blank, C, Undefined, Undefined, Undefined),
   Body(T, Undefined, Undefined, Undefined, Undefined),
   Body(T, Empty, Undefined, Undefined, Undefined),
   Body(T, Blank, Undefined, Undefined, Undefined)}

InputCommentBodies ==
  {Body(Undefined, c, Undefined, Undefined, Undefined) :
     c \in {Undefined, Empty, Blank, C}}

NextRequests ==
  \/ CreatePost(PostPaths, {"u1"}, InputCreateBodies)
  \/ GetPost(PostPaths)
  \/ CreateComment(BothPaths("comments"), {"u2"}, InputCommentBodies)
  \/ GetComments(BothPaths("comments"))
  \/ LikePost(BothPaths("like"), {"u2"}, LikeBodies)
  \/ BookmarkPost(BothPaths("bookmark"), {"u2"}, BookmarkBodies)
  \/ Unauthenticated(PostPaths)
  \/ NoEndpoint(PostPaths, {"u2"})
  \/ Tick

SpecRequests == Init /\ [][NextRequests]_vars

(***************************************************************************)
(* SpecConcurrent: invocations of setLike and setBookmark by distinct      *)
(* callers that overlap.  Each invocation is a sequence of store commands  *)
(* with an await between them; a command is atomic and the commands of     *)
(* different invocations interleave freely.  A caller starts its next      *)
(* invocation once its last one has returned.                              *)
(***************************************************************************)
\* the post the overlapping invocations are about
ThePost == PostIdPool[1]

\* setLike up to its first await: routing, authentication, and the read of the
\* post record
LikeRequest(paths, creds, bodies) ==
  \E path \in paths, cred \in creds, body \in bodies :
    /\ Operation(db, Req("POST", path, cred, body, NoQuery)) = "handleLikePost"
    /\ likeCalls[cred].pc \in {"idle", "done"}
    /\ likeCalls' =
         [likeCalls EXCEPT ![cred] =
            [pc |-> IF HasHash(db.post, PostIdOf(Req("POST", path, cred, body, NoQuery)))
                      THEN "write" ELSE "done",
             postId |-> PostIdOf(Req("POST", path, cred, body, NoQuery)),
             action |-> Default(body.action, Str(<<"like">>)),
             status |-> IF HasHash(db.post, PostIdOf(Req("POST", path, cred, body, NoQuery)))
                          THEN 0 ELSE 404,
             likes |-> 0]]
    /\ UNCHANGED <<db, resp, nextPost, nextComment, clock, bookmarkCalls, fault, faults,
                    running, base>>

\* setLike's sadd or srem
LikeStore(creds) ==
  \E cred \in creds :
    /\ likeCalls[cred].pc = "write"
    /\ db' = [db EXCEPT !.likes = LikeWrite(db, likeCalls[cred].postId, cred,
                                            likeCalls[cred].action)]
    /\ likeCalls' = [likeCalls EXCEPT ![cred].pc = "count"]
    /\ UNCHANGED <<resp, nextPost, nextComment, clock, bookmarkCalls, fault, faults,
                    running, base>>

\* setLike's scard and its answer
LikeRespond(creds) ==
  \E cred \in creds :
    /\ likeCalls[cred].pc = "count"
    /\ likeCalls' = [likeCalls EXCEPT ![cred].pc = "done",
                                      ![cred].status = 200,
                                      ![cred].likes = Scard(db.likes, likeCalls[cred].postId)]
    /\ UNCHANGED <<db, resp, nextPost, nextComment, clock, bookmarkCalls, fault, faults,
                    running, base>>

\* setBookmark up to its first await
BookmarkRequest(paths, creds, bodies) ==
  \E path \in paths, cred \in creds, body \in bodies :
    /\ Operation(db, Req("POST", path, cred, body, NoQuery)) = "handleBookmarkPost"
    /\ bookmarkCalls[cred].pc \in {"idle", "done"}
    /\ bookmarkCalls' =
         [bookmarkCalls EXCEPT ![cred] =
            [pc |-> IF HasHash(db.post, PostIdOf(Req("POST", path, cred, body, NoQuery)))
                      THEN "write" ELSE "done",
             postId |-> PostIdOf(Req("POST", path, cred, body, NoQuery)),
             action |-> Default(body.action, Str(<<"bookmark">>)),
             status |-> IF HasHash(db.post, PostIdOf(Req("POST", path, cred, body, NoQuery)))
                          THEN 0 ELSE 404,
             likes |-> 0]]
    /\ UNCHANGED <<db, resp, nextPost, nextComment, clock, likeCalls, fault, faults,
                    running, base>>

\* setBookmark's sadd or srem and its answer
BookmarkStore(creds) ==
  \E cred \in creds :
    /\ bookmarkCalls[cred].pc = "write"
    /\ db' = [db EXCEPT !.bookmarks = BookmarkWrite(db, bookmarkCalls[cred].postId, cred,
                                                    bookmarkCalls[cred].action)]
    /\ bookmarkCalls' = [bookmarkCalls EXCEPT ![cred].pc = "done", ![cred].status = 200]
    /\ UNCHANGED <<resp, nextPost, nextComment, clock, likeCalls, fault, faults,
                    running, base>>

NextConcurrent ==
  \/ CreatePost(PostPaths, {"u1"}, SocialCreateBodies)
  \/ LikeRequest({<<"community", "like", ThePost>>}, Readers, LikeBodies)
  \/ LikeStore(Readers)
  \/ LikeRespond(Readers)
  \/ BookmarkRequest({<<"community", "bookmark", ThePost>>}, Readers, BookmarkBodies)
  \/ BookmarkStore(Readers)

SpecConcurrent == Init /\ [][NextConcurrent]_vars

(***************************************************************************)
(* SpecComments: comments added to a post by two callers and read back,    *)
(* through getPost, listPosts and listComments, one request at a time.     *)
(***************************************************************************)
CommentBodies ==
  {Body(Undefined, c, Undefined, Undefined, Undefined) : c \in {C, T}}

NextComments ==
  \/ CreatePost(PostPaths, {"u1"}, SocialCreateBodies)
  \/ CreateComment(PrefixPaths("comments"), Authors, CommentBodies)
  \/ GetComments(PrefixPaths("comments"))
  \/ GetPost(PostPaths)
  \/ GetPosts(PostPaths, {NoQuery})
  \/ DeletePost(PostPaths, {"u1"})

SpecComments == Init /\ [][NextComments]_vars

(***************************************************************************)
(* SpecListing: posts created and updated with categories inside and       *)
(* outside the page's enumeration, and listed by category and tags, one    *)
(* request at a time.                                                      *)
(***************************************************************************)
\* the categories the page offers
Categories ==
  {Str(<<c>>) : c \in {"question", "idea", "showcase", "resource", "team", "announcement"}}
\* the category of a post created without one
Fallback == Str(<<"discussion">>)

\* selectedTags.join(',')
Join(tags) ==
  [i \in 1..(IF Len(tags) = 0 THEN 0 ELSE 2 * Len(tags) - 1) |->
     IF i % 2 = 1 THEN tags[(i + 1) \div 2] ELSE ","]

ListingCreateBodies ==
  {Body(T, C, category, Arr(<<"a", "b">>), Undefined) :
     category \in {Undefined, Null, Empty, Str(<<"bogus">>), Str(<<"idea">>)}}
    \cup {Body(T, C, Str(<<"idea">>), Arr(<<"c">>), Undefined),
          Body(T, C, Str(<<"showcase">>), Arr(<<"a">>), Undefined)}

ListingUpdateBodies ==
  {Body(Undefined, Undefined, Str(<<"idea">>), Arr(<<"b">>), Undefined),
   Body(Undefined, Undefined, Str(<<"showcase">>), Undefined, Undefined)}

\* the category and tag selections of the listing
FilterCategories == {Str(<<"idea">>), Str(<<"showcase">>)}
FilterTags == {<<"a">>, <<"b">>, <<"a", "b">>}
FilterQuery(category, tags) ==
  Query(Undefined, category, Str(Join(tags)), Undefined, "", Undefined, Undefined)
FilterQueries ==
  {FilterQuery(category, tags) : category \in FilterCategories, tags \in FilterTags}

NextListing ==
  \/ CreatePost(PostPaths, Authors, ListingCreateBodies)
  \/ UpdatePost(PostPaths, {"u1", "adm"}, ListingUpdateBodies)
  \/ DeletePost(PostPaths, {"u1"})
  \/ GetPosts(PostPaths, FilterQueries)

SpecListing == Init /\ [][NextListing]_vars

(***************************************************************************)
(* SpecAccess: write requests without a credential or from a caller        *)
(* without a profile, beside reads, which carry no credential, one request *)
(* at a time.                                                              *)
(***************************************************************************)
AllPaths ==
  PostPaths \cup PrefixPaths("like") \cup PrefixPaths("bookmark")
    \cup PrefixPaths("comments")

NextAccess ==
  \/ CreatePost(PostPaths, {"u1"}, SocialCreateBodies)
  \/ DeletePost(PostPaths, {"u1"})
  \/ LikePost(PrefixPaths("like"), {"u2"}, LikeBodies)
  \/ Unauthenticated(AllPaths)
  \/ UnknownCaller(AllPaths)
  \/ GetPosts(PostPaths, {NoQuery})
  \/ GetPost(PostPaths)
  \/ GetComments(PrefixPaths("comments"))

SpecAccess == Init /\ [][NextAccess]_vars

(***************************************************************************)
(* SpecFailures: requests that succeed beside requests that end because a  *)
(* store command fails, one request at a time.                             *)
(***************************************************************************)
FailUpdateBodies ==
  {Body(Undefined, Undefined, Str(<<"idea">>), Arr(<<"b">>), Undefined)}

FailLikeBodies ==
  {Body(Undefined, Undefined, Undefined, Undefined, Str(<<"like">>))}

FailBookmarkBodies ==
  {Body(Undefined, Undefined, Undefined, Undefined, Str(<<"bookmark">>))}

FailQueries ==
  {Query(Undefined, Undefined, Undefined, Str(<<"true">>), "u2", Undefined, Undefined)}

\* the requests a store failure can end
FailingRequests ==
  {Req("POST", <<"community">>, "u1", body, NoQuery) : body \in SocialCreateBodies}
    \cup {Req("GET", <<"community">>, NoToken, NoBody, q) : q \in FailQueries}
    \cup UNION {
      {Req("GET", <<"community", id>>, NoToken, NoBody, NoQuery),
       Req("GET", <<"community", "comments", id>>, NoToken, NoBody, NoQuery),
       Req("DELETE", <<"community", id>>, "u1", NoBody, NoQuery)}
      \cup {Req("PUT", <<"community", id>>, "u1", body, NoQuery) :
              body \in FailUpdateBodies}
      \cup {Req("POST", <<"community", "comments", id>>, "u2", body, NoQuery) :
              body \in SocialCommentBodies}
      \cup {Req("POST", <<"community", "like", id>>, "u2", body, NoQuery) :
              body \in FailLikeBodies}
      \cup {Req("POST", <<"community", "bookmark", id>>, "u2", body, NoQuery) :
              body \in FailBookmarkBodies} : id \in IssuedPosts}

NextFailures ==
  \/ CreatePost(PostPaths, {"u1"}, SocialCreateBodies)
  \/ CreateComment(PrefixPaths("comments"), {"u2"}, SocialCommentBodies)
  \/ StoreFails(FailingRequests)

SpecFailures == Init /\ [][NextFailures]_vars

(***************************************************************************)
(* SpecProfiles: posts are created and updated, by their authors and by    *)
(* the administrator, while the display names of the profiles change and   *)
(* time passes, one request at a time.                                     *)
(***************************************************************************)
ProfileCreateBodies == {Body(T, C, Undefined, Arr(<<"a">>), Undefined)}

ProfileUpdateBodies ==
  {Body(Str(<<"T", "2">>), Undefined, Undefined, Undefined, Undefined),
   Body(Undefined, Undefined, Str(<<"idea">>), Arr(<<"b">>), Undefined)}

DisplayNames == {Str(<<"Ann">>), Str(<<"Zed">>)}

NextProfiles ==
  \/ CreatePost(PostPaths, {"u1"}, ProfileCreateBodies)
  \/ UpdatePost(PostPaths, Users, ProfileUpdateBodies)
  \/ RenameUser({"u1"}, DisplayNames)
  \/ Tick

SpecProfiles == Init /\ [][NextProfiles]_vars

(***************************************************************************)
(* SpecSorting: listPosts over stores that hold several posts with their   *)
(* times of creation, likes and comments, under every sort key and order.  *)
(***************************************************************************)
SortedPosts == 1..(MaxPosts + 1)

SortBody == Body(T, C, Undefined, Undefined, Undefined)

Likers == <<"u2">>

\* the posts, the n-th created at times[n]
RECURSIVE WithPosts(_, _)
WithPosts(times, n) ==
  IF n = 0
    THEN EmptyStore
    ELSE handleCreatePost(WithPosts(times, n - 1), PostIdPool[n], times[n], "u1",
                          InitialProfiles["u1"], SortBody).db

\* post n liked by the first k of the likers
RECURSIVE WithLikesOf(_, _, _)
WithLikesOf(d, n, k) ==
  IF k = 0
    THEN d
    ELSE handleLikePost(WithLikesOf(d, n, k - 1), PostIdPool[n], Likers[k], NoBody).db

\* the first n posts liked, post i by likes[i] callers
RECURSIVE WithLikes(_, _, _)
WithLikes(d, likes, n) ==
  IF n = 0 THEN d ELSE WithLikesOf(WithLikes(d, likes, n - 1), n, likes[n])

\* the first k comments added, comment i to post owners[i]
RECURSIVE WithComments(_, _, _, _)
WithComments(d, owners, k, now) ==
  IF k = 0
    THEN d
    ELSE handleCreateComment(WithComments(d, owners, k - 1, now), PostIdPool[owners[k]],
                             CommentIdPool[k], now, "u2", InitialProfiles["u2"],
                             SortBody).db

\* the clock does not go back between two posts
SortTimes ==
  {t \in [SortedPosts -> 0..MaxClock] :
     \A i \in SortedPosts : \A j \in SortedPosts : i <= j => t[i] <= t[j]}

\* the posts the comments go to (counts alone matter to the listing)
SortOwners ==
  {o \in UNION {[1..m -> SortedPosts] : m \in 0..MaxComments} :
     \A i \in DOMAIN o : \A j \in DOMAIN o : i <= j => o[i] <= o[j]}

SortPlans ==
  {[times |-> t, likes |-> l, owners |-> o] :
     t \in SortTimes,
     l \in [SortedPosts -> 0..Len(Likers)],
     o \in SortOwners}

SortStore(plan) ==
  WithComments(WithLikes(WithPosts(plan.times, MaxPosts + 1), plan.likes, MaxPosts + 1),
               plan.owners, Len(plan.owners), plan.times[MaxPosts + 1])

SortQueries ==
  {Query(Undefined, Undefined, Undefined, Undefined, "", sortBy, sortOrder) :
     sortBy \in {Undefined, Str(<<"createdAt">>), Str(<<"likes">>), Str(<<"comments">>)},
     sortOrder \in {Undefined, Str(<<"desc">>), Str(<<"asc">>)}}

InitSorting ==
  \E plan \in SortPlans :
    /\ db = SortStore(plan)
    /\ resp = [op |-> "init", req |-> Req("", <<>>, NoToken, NoBody, NoQuery),
               postId |-> NoPost, status |-> 0, data |-> NoData]
    /\ nextPost = MaxPosts + 2
    /\ nextComment = Len(plan.owners) + 1
    /\ clock = plan.times[MaxPosts + 1]
    /\ likeCalls = [u \in Users |-> Idle]
    /\ bookmarkCalls = [u \in Users |-> Idle]
    /\ fault = NoFault
    /\ faults = 0
    /\ running = [c \in CallIds |-> NoCall]
    /\ base = SortStore(plan)

NextSorting == GetPosts({<<"community">>}, SortQueries)

SpecSorting == InitSorting /\ [][NextSorting]_vars

(***************************************************************************)
(* SpecIndependent: an operation on one post and an operation on another   *)
(* post, their store commands interleaved.                                 *)
(***************************************************************************)
PostP == PostIdPool[1]
PostQ == PostIdPool[2]

SharedBody == Body(T, C, Undefined, Arr(<<"a">>), Undefined)

\* two posts of one author in one category with one tag
TwoPosts ==
  handleCreatePost(handleCreatePost(EmptyStore, PostP, 0, "u1", InitialProfiles["u1"],
                                    SharedBody).db,
                   PostQ, 0, "u1", InitialProfiles["u1"], SharedBody).db

\* both liked and bookmarked by u2
SharedStore ==
  handleBookmarkPost(
    handleBookmarkPost(
      handleLikePost(handleLikePost(TwoPosts, PostP, "u2", NoBody).db,
                     PostQ, "u2", NoBody).db,
      PostP, "u2", NoBody).db,
    PostQ, "u2", NoBody).db

\* the operations on one post
OnPost(p) ==
  {Req("PUT", <<"community", p>>, "u1",
       Body(Undefined, Undefined, Str(<<"idea">>), Arr(<<"b">>), Undefined), NoQuery),
   Req("DELETE", <<"community", p>>, "u1", NoBody, NoQuery),
   Req("POST", <<"community", "like", p>>, "adm", NoBody, NoQuery),
   Req("POST", <<"community", "bookmark", p>>, "adm", NoBody, NoQuery),
   Req("POST", <<"community", "bookmark", p>>, "u2",
       Body(Undefined, Undefined, Undefined, Undefined, Str(<<"unbookmark">>)), NoQuery),
   Req("POST", <<"community", "comments", p>>, "u2",
       Body(Undefined, C, Undefined, Undefined, Undefined), NoQuery)}

InitIndependent ==
  /\ db = SharedStore
  /\ resp = [op |-> "init", req |-> Req("", <<>>, NoToken, NoBody, NoQuery),
             postId |-> NoPost, status |-> 0, data |-> NoData]
  /\ nextPost = 3
  /\ nextComment = 1
  /\ clock = 0
  /\ likeCalls = [u \in Users |-> Idle]
  /\ bookmarkCalls = [u \in Users |-> Idle]
  /\ fault = NoFault
  /\ faults = 0
  /\ running = [c \in CallIds |-> NoCall]
  /\ base = SharedStore

NextIndependent ==
  \/ BeginCall("first", OnPost(PostP))
  \/ BeginCall("second", OnPost(PostQ))
  \/ CallStep("first")
  \/ CallStep("second")

SpecIndependent == InitIndependent /\ [][NextIndependent]_vars

(***************************************************************************)
(* SpecRepeat: posts are created, updated, bookmarked and deleted while    *)
(* time passes, one request at a time, a request possibly following the    *)
(* same request.                                                           *)
(***************************************************************************)
RepeatCreateBodies == {Body(T, C, Undefined, Arr(<<"a">>), Undefined)}

RepeatUpdateBodies ==
  {Body(Str(<<"T", "2">>), Undefined, Str(<<"idea">>), Arr(<<"a", "b">>), Undefined),
   Body(Undefined, Undefined, Undefined, Str(<<"a", "b">>), Undefined)}

NextRepeat ==
  \/ CreatePost(PostPaths, {"u1"}, RepeatCreateBodies)
  \/ UpdatePost(PostPaths, {"u1"}, RepeatUpdateBodies)
  \/ BookmarkPost(PrefixPaths("bookmark"), Readers, BookmarkBodies)
  \/ DeletePost(PostPaths, {"u1"})
  \/ Tick

SpecRepeat == Init /\ [][NextRepeat]_vars

(***************************************************************************)
(* SpecUpdateSteps: posts are created, and updated by one invocation at a  *)
(* time that runs command by command.                                      *)
(***************************************************************************)
StepCreateBodies ==
  {Body(T, C, Undefined, Arr(<<"a">>), Undefined),
   Body(T, C, Str(<<"idea">>), Arr(<<"a", "b">>), Undefined)}

StepUpdateBodies ==
  {Body(Undefined, Undefined, Str(<<"idea">>), Undefined, Undefined),
   Body(Undefined, Undefined, Str(<<"showcase">>), Arr(<<"b", "c">>), Undefined),
   Body(Str(<<"T", "2">>), Undefined, Undefined, Arr(<<"a">>), Undefined),
   Body(Undefined, Undefined, Empty, Undefined, Undefined)}

StepUpdates ==
  {Req("PUT", <<"community", p>>, "u1", body, NoQuery) :
     p \in IssuedPosts, body \in StepUpdateBodies}

NextUpdateSteps ==
  \/ CreatePost(PostPaths, {"u1"}, StepCreateBodies)
  \/ BeginCall("first", StepUpdates)
  \/ CallStep("first")
  \/ CallEnds("first")

SpecUpdateSteps == Init /\ [][NextUpdateSteps]_vars

(***************************************************************************)
(* SpecCreateSteps: posts are created by one invocation at a time that     *)
(* runs command by command and that a store error can end, and read.       *)
(***************************************************************************)
StepCreates ==
  {Req("POST", <<"community">>, u, body, NoQuery) :
     u \in Authors, body \in StepCreateBodies \cup {Body(T, C, Undefined, Null, Undefined)}}

NextCreateSteps ==
  \/ BeginCall("first", StepCreates)
  \/ CallStep("first")
  \/ CallFails("first")
  \/ CallEnds("first")
  \/ GetPost(PostPaths)

SpecCreateSteps == Init /\ [][NextCreateSteps]_vars

(***************************************************************************)
(* SpecDeleteSteps: a post is created, liked, bookmarked and commented,    *)
(* and deleted by an invocation that runs command by command and that a    *)
(* store error can end; the other requests go on, one at a time.           *)
(***************************************************************************)
StepDeletes ==
  {Req("DELETE", <<"community", p>>, "u1", NoBody, NoQuery) : p \in IssuedPosts}

\* the requests that run from their first command to their last run while no
\* invocation is between two of its commands
NoCallRunning == \A c \in CallIds : running[c].pc # "running"

\* the first comment there is
FirstComment ==
  /\ nextComment = 1
  /\ CreateComment(PrefixPaths("comments"), {"u2"}, SocialCommentBodies)

NextDeleteSteps ==
  \/ NoCallRunning /\ CreatePost(PostPaths, {"u1"}, SocialCreateBodies)
  \/ NoCallRunning /\ LikePost(PrefixPaths("like"), {"u2"}, LikeBodies)
  \/ NoCallRunning /\ BookmarkPost(PrefixPaths("bookmark"), {"u2"}, BookmarkBodies)
  \/ NoCallRunning /\ FirstComment
  \/ NoCallRunning /\ DeletePost(PostPaths, {"u1"})
  \/ BeginCall("first", StepDeletes)
  \/ CallStep("first")
  \/ CallFails("first")

SpecDeleteSteps == Init /\ [][NextDeleteSteps]_vars

(***************************************************************************)
(* SpecListSteps: two posts are there; a deletePost of one of them runs    *)
(* command by command and may end on a store error, and listPosts, sent    *)
(* as the page sends it, runs command by command beside it.  The two       *)
(* callbacks of Promise.all read different keys, so how their reads fall   *)
(* between the commands of deletePost is covered by running them one       *)
(* after the other.                                                        *)
(***************************************************************************)
ListDeletes ==
  {Req("DELETE", <<"community", p>>, "u1", NoBody, NoQuery) : p \in {PostP, PostQ}}

ListRequests == {Req("GET", <<"community">>, NoToken, NoBody, NoQuery)}

\* the commands of a listPosts, as far as its reads have determined them
ListProgram(c) == AllCommands(GetPostsProgram(c.view, c.req.query))

\* what a read of listPosts adds to postIds and to the entry its callback builds
Shown(view, d, cmd) ==
  CASE cmd.c = "lrange" -> [view EXCEPT !.posts = d.posts]
    [] cmd.c = "hgetall" ->
         [view EXCEPT !.post = IF HasHash(d.post, cmd.name)
                                 THEN Hset(@, cmd.name, d.post[cmd.name])
                                 ELSE DelHash(@, cmd.name)]
    [] cmd.c = "scard" ->
         [view EXCEPT !.likes = DelSet(@, cmd.name)
                                  \cup {<<cmd.name, u>> : u \in Smembers(d.likes, cmd.name)}]
    [] cmd.c = "llen" ->
         [view EXCEPT !.postComments =
            IF cmd.name \in DOMAIN d.postComments
              THEN Hset(@, cmd.name, d.postComments[cmd.name])
              ELSE DelHash(@, cmd.name)]
    [] OTHER -> view

\* listPosts arrives
BeginList(id, reqs) ==
  \E req \in reqs :
    /\ running[id].pc = "idle"
    /\ running' = [running EXCEPT ![id] = Call(req, NoPost, "", clock)]
    /\ base' = IF \A c \in CallIds : running[c].pc = "idle" THEN db ELSE base
    /\ UNCHANGED <<db, resp, nextPost, nextComment, clock, likeCalls, bookmarkCalls,
                   fault, faults>>

\* listPosts completes its next read, and returns after its last one
ListStep(id) ==
  /\ running[id].pc = "running"
  /\ running[id].req.method = "GET"
  /\ \E cmd \in {ListProgram(running[id])[running[id].done + 1]} :
       \E c \in {[running[id] EXCEPT !.done = @ + 1,
                                     !.view = Shown(@, db, cmd)]} :
         /\ db' = Apply(db, cmd)
         /\ running' = [running EXCEPT ![id] =
                          IF c.done = Len(ListProgram(c))
                            THEN [c EXCEPT !.pc = "done"] ELSE c]
         /\ resp' = IF c.done = Len(ListProgram(c)) THEN Answer(c) ELSE resp
         /\ fault' = IF c.done = Len(ListProgram(c)) THEN NoFault ELSE fault
         /\ UNCHANGED <<nextPost, nextComment, clock, likeCalls, bookmarkCalls,
                        faults, base>>

NextListSteps ==
  \/ BeginCall("first", ListDeletes)
  \/ CallStep("first")
  \/ CallFails("first")
  \/ BeginList("second", ListRequests)
  \/ ListStep("second")
  \/ CallEnds("second")

SpecListSteps == InitIndependent /\ [][NextListSteps]_vars

(***************************************************************************)
(* SpecSamePost: two posts are there; two requests on the same post run    *)
(* command by command beside each other: an updatePost, a setLike, a       *)
(* setBookmark or an addComment beside a deletePost or an updatePost.      *)
(***************************************************************************)
NewTitle == Str(<<"T", "2">>)
NewContent == Str(<<"C", "2">>)

SameUpdateBodies ==
  {Body(NewTitle, Undefined, Undefined, Undefined, Undefined),
   Body(Undefined, NewContent, Undefined, Undefined, Undefined),
   Body(Undefined, Undefined, Str(<<"idea">>), Arr(<<"b">>), Undefined),
   Body(Undefined, Undefined, Str(<<"question">>), Arr(<<"c">>), Undefined)}

SameUpdates ==
  {Req("PUT", <<"community", PostP>>, "u1", body, NoQuery) : body \in SameUpdateBodies}

SameDelete == Req("DELETE", <<"community", PostP>>, "u1", NoBody, NoQuery)

SameSocial ==
  {Req("POST", <<"community", "like", PostP>>, "adm", NoBody, NoQuery),
   Req("POST", <<"community", "bookmark", PostP>>, "adm", NoBody, NoQuery),
   Req("POST", <<"community", "comments", PostP>>, "u2",
       Body(Undefined, C, Undefined, Undefined, Undefined), NoQuery)}

NextSamePost ==
  \/ BeginCall("first", SameUpdates \cup SameSocial)
  \/ BeginCall("second", SameUpdates \cup {SameDelete})
  \/ CallStep("first")
  \/ CallStep("second")

SpecSamePost == InitIndependent /\ [][NextSamePost]_vars

(***************************************************************************)
(* SpecActions: setLike and setBookmark with every kind of action field:   *)
(* absent, one of the two recognised words, and another word.              *)
(***************************************************************************)
ActionCreateBodies == {Body(T, C, Undefined, Arr(<<"a">>), Undefined)}

LikeActions ==
  {Body(Undefined, Undefined, Undefined, Undefined, a) :
     a \in {Undefined, Str(<<"like">>), Str(<<"unlike">>), Str(<<"toggle">>)}}

BookmarkActions ==
  {Body(Undefined, Undefined, Undefined, Undefined, a) :
     a \in {Undefined, Str(<<"bookmark">>), Str(<<"unbookmark">>), Str(<<"toggle">>)}}

NextActions ==
  \/ CreatePost(PostPaths, {"u1"}, ActionCreateBodies)
  \/ LikePost(PrefixPaths("like"), Readers, LikeActions)
  \/ BookmarkPost(PrefixPaths("bookmark"), Readers, BookmarkActions)

SpecActions == Init /\ [][NextActions]_vars

(***************************************************************************)
(* SpecAnonymous: two posts are there, liked and bookmarked by u2; u2      *)
(* sets and removes likes and bookmarks, and listPosts is sent with and    *)
(* without the bookmarked flag, with and without a caller identity.        *)
(***************************************************************************)
AnonymousQueries ==
  {Query(Undefined, Undefined, Undefined, bookmarked, userId, Undefined, Undefined) :
     bookmarked \in {Undefined, Str(<<"true">>)}, userId \in {"", "u2"}}

NextAnonymous ==
  \/ LikePost(PrefixPaths("like"), {"u2"}, LikeBodies)
  \/ BookmarkPost(PrefixPaths("bookmark"), {"u2"}, BookmarkBodies)
  \/ GetPosts({<<"community">>}, AnonymousQueries)

SpecAnonymous == InitIndependent /\ [][NextAnonymous]_vars

(***************************************************************************)
(* Where a post id is indexed.                                             *)
(***************************************************************************)
InGlobalList(p) == p \in Range(db.posts)
AuthorListsOf(p) == {u \in DOMAIN db.userPosts : p \in Range(db.userPosts[u])}
CategorySetsOf(p) == {k \in Keys(db.category) : Sismember(db.category, k, p)}
TagSetsOf(p) == {k \in Keys(db.tag) : Sismember(db.tag, k, p)}
Exists(p) == HasHash(db.post, p)
\* the last request was served by op and answered with status
Served(op, status) == resp.op = op /\ resp.status = status

\* C1: once deletePost(P) has succeeded, P's id is in no global list, no
\* author list, no category set and no tag set, and getPost(P) is NotFound.
C1_DeletedPostIsNowhere ==
  \A p \in IssuedPosts :
    ~Exists(p) =>
      /\ ~InGlobalList(p)
      /\ AuthorListsOf(p) = {}
      /\ CategorySetsOf(p) = {}
      /\ TagSetsOf(p) = {}
      /\ handleGetPost(db, p).status = 404

\* C2: right after createPost has answered 201 for P, P's id is in the global
\* list, in its author's list, in the set of its category and in the set of
\* every tag of its stored tags.
C2_CreatedPostIsIndexed ==
  Served("handleCreatePost", 201) =>
    LET p == resp.data.id
        rec == db.post[p]
    IN  /\ Exists(p)
        /\ InGlobalList(p)
        /\ resp.req.cred \in AuthorListsOf(p)
        /\ rec.authorId = resp.req.cred
        /\ Template(rec.category) \in CategorySetsOf(p)
        /\ Range(JSONParse(rec.tags).v) \subseteq TagSetsOf(p)

C2_Witness ==
  /\ Served("handleCreatePost", 201)
  /\ JSONParse(db.post[resp.data.id].tags) = Arr(<<"a", "b">>)
  /\ TagSetsOf(resp.data.id) = {"a", "b"}

\* C3: every existing post is in exactly one category set, the set of the
\* category on its record, and in the global list and its author's list; a
\* deleted post is in none of them.
C3_OneCategoryAndLists ==
  \A p \in IssuedPosts :
    IF Exists(p)
      THEN /\ CategorySetsOf(p) = {Template(db.post[p].category)}
           /\ InGlobalList(p)
           /\ AuthorListsOf(p) = {db.post[p].authorId}
      ELSE /\ CategorySetsOf(p) = {}
           /\ ~InGlobalList(p)
           /\ AuthorListsOf(p) = {}

\* a post an update has moved from its first category to another
C3_Witness ==
  /\ Served("handleUpdatePost", 200)
  /\ resp.req.body.category = Str(<<"showcase">>)
  /\ CategorySetsOf(resp.postId) = {<<"showcase">>}

\* C8: createPost with title T, content C and tag list L, then getPost of the
\* returned id: title T, content C, tags equal to L as a set, no likes and no
\* comments.
C8_CreateGetRoundTrip ==
  (Served("handleCreatePost", 201) /\ resp.req.body.tags.t = "array") =>
    LET got == handleGetPost(db, resp.data.id)
    IN  /\ got.status = 200
        /\ got.data.title = resp.req.body.title
        /\ got.data.content = resp.req.body.content
        /\ got.data.tags.t = "array"
        /\ Range(got.data.tags.v) = Range(resp.req.body.tags.v)
        /\ got.data.likes = 0
        /\ got.data.comments = 0

C8_Witness ==
  /\ Served("handleGetPost", 200)
  /\ resp.data.title = T
  /\ resp.data.content = C
  /\ resp.data.tags = Arr(<<"a", "b">>)
  /\ resp.data.likes = 0

\* the caller of the request is neither the author of post p nor an admin
Stranger(d, req, p) ==
  /\ HasHash(d.post, p)
  /\ d.post[p].authorId # req.cred
  /\ d.user[req.cred].role # "admin"

\* C4: updatePost and deletePost by a caller who is neither the author nor an
\* admin answer 403 and leave the whole store as it was.
C4_ForbiddenChangesNothing ==
  [][(/\ resp'.op \in {"handleUpdatePost", "handleDeletePost"}
      /\ Stranger(db, resp'.req, resp'.postId))
       => (resp'.status = 403 /\ db' = db)]_vars

\* a refused update of a post that has a like, a comment and a bookmark
C4_Witness ==
  /\ Served("handleUpdatePost", 403)
  /\ Stranger(db, resp.req, resp.postId)
  /\ Smembers(db.likes, resp.postId) # {}
  /\ ListAt(db.postComments, resp.postId) # <<>>
  /\ \E u \in Users : Sismember(db.bookmarks, u, resp.postId)

\* the ids listPosts returns for user u's bookmarks
BookmarkedListing(u) ==
  LET out == handleGetPosts(db, Query(Undefined, Undefined, Undefined, Str(<<"true">>),
                                      u, Undefined, Undefined)).data
  IN  {out[i].id : i \in 1..Len(out)}

\* C5: once deletePost(P) has succeeded, no user's bookmark set holds P's id
\* and listPosts(userId=U, bookmarked=true) does not return P for any user U.
C5_DeletedPostIsInNoBookmarks ==
  \A p \in IssuedPosts :
    ~Exists(p) =>
      \A u \in Users :
        /\ ~Sismember(db.bookmarks, u, p)
        /\ p \notin BookmarkedListing(u)

\* the bookmark listing of a user, empty after the deletion of the post
C5_Witness ==
  /\ Served("handleGetPosts", 200)
  /\ resp.req.query.userId = "u2"
  /\ resp.data = <<>>
  /\ \E p \in IssuedPosts : ~Exists(p)

LikeAction(r) == Default(r.req.body.action, Str(<<"like">>))

\* C6: a second setLike(true) by the same caller on the same post leaves the
\* likes set and returns the count of the first; setLike(false) by a caller
\* who is not in the likes set leaves the set and the count as they were.
C6_LikeIsIdempotent ==
  [][/\ (/\ Served("handleLikePost", 200)
         /\ LikeAction(resp) = Str(<<"like">>)
         /\ resp'.op = "handleLikePost"
         /\ resp'.req = resp.req)
          => (resp'.status = 200 /\ db'.likes = db.likes /\ resp'.data = resp.data)
     /\ (/\ resp'.op = "handleLikePost"
         /\ resp'.status = 200
         /\ LikeAction(resp') = Str(<<"unlike">>)
         /\ ~Sismember(db.likes, resp'.postId, resp'.req.cred))
          => (/\ db'.likes = db.likes
              /\ resp'.data.likes = Scard(db.likes, resp'.postId))]_vars

\* a like by a caller beside another caller's like
C6_Witness ==
  /\ Served("handleLikePost", 200)
  /\ LikeAction(resp) = Str(<<"like">>)
  /\ resp.data.likes = 2
  /\ Sismember(db.likes, resp.postId, resp.req.cred)

\* every invocation of these callers has returned
Returned(calls) == \A u \in Users : calls[u].pc \in {"idle", "done"}
\* the callers whose last invocation on ThePost succeeded with this action
LastDid(calls, action) ==
  {u \in Users : /\ calls[u].pc = "done"
                 /\ calls[u].status = 200
                 /\ calls[u].action = Str(<<action>>)}

\* C7: once overlapping setLike invocations by distinct callers on a post have
\* all returned, the likes set of the post is exactly the set of the callers
\* whose invocation was a like, whatever the interleaving; the same for
\* setBookmark and the bookmark sets.
C7_OverlappingCallsSettle ==
  /\ Returned(likeCalls) => Smembers(db.likes, ThePost) = LastDid(likeCalls, "like")
  /\ Returned(bookmarkCalls) =>
       {u \in Users : Sismember(db.bookmarks, u, ThePost)} = LastDid(bookmarkCalls, "bookmark")

\* two likes that both counted two likes, beside a bookmark and a withdrawn one
C7_Witness ==
  /\ Returned(likeCalls)
  /\ Returned(bookmarkCalls)
  /\ LastDid(likeCalls, "like") = Readers
  /\ \A u \in Readers : likeCalls[u].likes = 2
  /\ LastDid(bookmarkCalls, "bookmark") = {"u2"}
  /\ LastDid(bookmarkCalls, "unbookmark") = {"adm"}

\* the operation a request of the page is meant for
MeantFor(method, word) ==
  CASE word = "like" -> "handleLikePost"
    [] word = "bookmark" -> "handleBookmarkPost"
    [] method = "GET" -> "handleGetComments"
    [] OTHER -> "handleCreateComment"

\* C9: a request to community/{id}/like, community/{id}/bookmark or
\* community/{id}/comments is served by setLike, setBookmark or
\* addComment/listComments, called with postId equal to {id}.
C9_PagePathNamesThePost ==
  \A id \in IssuedPosts, word \in {"like", "bookmark", "comments"} :
    resp.req.path = <<"community", id, word>> =>
      /\ resp.op = MeantFor(resp.req.method, word)
      /\ resp.postId = id

\* a field that is absent, empty or only whitespace
BlankField(x) == x.t \in {"undefined", "null"} \/ Trim(x.v) = <<>>

\* C10: createPost with a title or content that is empty or only whitespace,
\* and addComment on an existing post with such a content, answer 400 and
\* write nothing to the store.
C10_BlankInputIsRejected ==
  [][/\ (/\ resp'.op = "handleCreatePost"
         /\ BlankField(resp'.req.body.title) \/ BlankField(resp'.req.body.content))
          => (resp'.status = 400 /\ db' = db)
     /\ (/\ resp'.op = "handleCreateComment"
         /\ HasHash(db.post, resp'.postId)
         /\ BlankField(resp'.req.body.content))
          => (resp'.status = 400 /\ db' = db)]_vars

\* the place of a comment among the completed addComment calls: nanoid() named
\* it for the call
AddedAt(commentId) ==
  CHOOSE i \in 1..Len(CommentIdPool) : CommentIdPool[i] = commentId

\* C12: listComments returns the comments of a post in insertion order: of two
\* comments, the one added earlier comes earlier in the answer.
C12_CommentsInInsertionOrder ==
  \A p \in IssuedPosts :
    Exists(p) =>
      LET out == handleGetComments(db, p).data
      IN  \A i, j \in 1..Len(out) :
            i < j => AddedAt(out[i].id) < AddedAt(out[j].id)

\* the comment count listPosts shows for post p
ListedComments(d, p) ==
  LET out == handleGetPosts(d, NoQuery).data
  IN  out[CHOOSE i \in 1..Len(out) : out[i].id = p].comments

\* C13: after addComment has answered 201 on post P, the new comment's id is
\* in P's comment list and in its author's comment list, and the comment count
\* of getPost(P) and of listPosts is one more than before the call.
C13_CommentIsListedAndCounted ==
  [][(resp'.op = "handleCreateComment" /\ resp'.status = 201) =>
       /\ resp'.data.id \in Range(ListAt(db'.postComments, resp'.postId))
       /\ resp'.data.id \in Range(ListAt(db'.userComments, resp'.req.cred))
       /\ handleGetPost(db', resp'.postId).data.comments
            = handleGetPost(db, resp'.postId).data.comments + 1
       /\ ListedComments(db', resp'.postId)
            = ListedComments(db, resp'.postId) + 1]_vars

\* the second comment on a post, by another author than the first
C13_Witness ==
  /\ Served("handleCreateComment", 201)
  /\ Len(ListAt(db.postComments, resp.postId)) = 2
  /\ handleGetPost(db, resp.postId).data.comments = 2
  /\ DOMAIN db.userComments = Authors

\* C11: createPost with the category absent, or with a category outside the
\* enumeration (null and the empty string included), stores the fallback
\* category on the record and puts the post in the fallback category's set and
\* in no other category set.
C11_UnknownCategoryFallsBack ==
  (/\ Served("handleCreatePost", 201)
   /\ resp.req.body.category \notin Categories) =>
    /\ db.post[resp.data.id].category = Fallback
    /\ CategorySetsOf(resp.data.id) = {Template(Fallback)}

\* the ids of an answer of listPosts
ListedIds(out) == {out[i].id : i \in 1..Len(out)}

\* C14: listPosts with a category and a tag selection returns exactly the
\* existing posts whose stored category is the requested one and whose stored
\* tags hold at least one of the requested tags.
C14_CategoryAndTagsFilter ==
  \A category \in FilterCategories, tags \in FilterTags :
    LET out == handleGetPosts(db, FilterQuery(category, tags))
    IN  /\ out.status = 200
        /\ Len(out.data) = Cardinality(ListedIds(out.data))
        /\ ListedIds(out.data) =
             {p \in IssuedPosts :
                /\ Exists(p)
                /\ db.post[p].category = category
                /\ Range(JSONParse(db.post[p].tags).v) \cap Range(tags) # {}}

\* a listing by idea and b that returns a post moved to idea and retagged b
C14_Witness ==
  /\ Served("handleGetPosts", 200)
  /\ resp.req.query = FilterQuery(Str(<<"idea">>), <<"a", "b">>)
  /\ Len(resp.data) = 1
  /\ resp.data[1].tags = Arr(<<"b">>)
  /\ handleGetPosts(db, FilterQuery(Str(<<"showcase">>), <<"a", "b">>)).data = <<>>
  /\ handleGetPosts(db, FilterQuery(Str(<<"idea">>), <<"a">>)).data = <<>>

\* the listing a caller identity gets, with and without the bookmarked flag
ListingOf(u, bookmarked) ==
  handleGetPosts(db, Query(Undefined, Undefined, Undefined, bookmarked, u,
                           Undefined, Undefined))

\* C15: listPosts(userId=U, bookmarked=true) returns exactly the existing posts
\* in U's bookmark set, and in every listing made with identity U each post's
\* isLiked is U's membership in the post's likes set and its isBookmarked the
\* post's membership in U's bookmark set.
C15_BookmarkedListingAndFlags ==
  \A u \in Users :
    /\ ListingOf(u, Str(<<"true">>)).status = 200
    /\ ListedIds(ListingOf(u, Str(<<"true">>)).data) =
         {p \in IssuedPosts : Exists(p) /\ Sismember(db.bookmarks, u, p)}
    /\ \A bookmarked \in {Undefined, Str(<<"true">>)} :
         \A i \in 1..Len(ListingOf(u, bookmarked).data) :
           LET e == ListingOf(u, bookmarked).data[i]
           IN  /\ e.isLiked = Sismember(db.likes, e.id, u)
               /\ e.isBookmarked = Sismember(db.bookmarks, u, e.id)

\* u2 has liked and bookmarked the post and lists its bookmarks; the
\* administrator has liked it only
C15_Witness ==
  /\ Served("handleGetPosts", 200)
  /\ resp.req.query.userId = "u2"
  /\ Len(resp.data) = 1
  /\ resp.data[1].isLiked
  /\ resp.data[1].isBookmarked
  /\ Sismember(db.likes, resp.data[1].id, "adm")
  /\ ListingOf("adm", Str(<<"true">>)).data = <<>>

\* the operations that are about a post of a given id
OnAPost ==
  {"handleGetComments", "handleCreateComment", "handleLikePost",
   "handleBookmarkPost", "handleUpdatePost", "handleDeletePost"}

\* C16: listComments, addComment, setLike, setBookmark, updatePost and
\* deletePost with a post id that has no record answer 404 and write nothing.
C16_AbsentPostIsNotFound ==
  [][(resp'.op \in OnAPost /\ ~HasHash(db.post, resp'.postId)) =>
       (resp'.status = 404 /\ db' = db)]_vars

\* a bookmark request for a deleted post
C16_Witness ==
  /\ Served("handleBookmarkPost", 404)
  /\ resp.postId \in IssuedPosts
  /\ ~Exists(resp.postId)
  /\ db.bookmarks = {}

\* the number of store commands the request of a step issues when every
\* command succeeds
Issued(o) ==
  Len(AllCommands(RequestProgram(db, resp'.req, PostIdPool[nextPost],
                                 CommentIdPool[nextComment], clock, o)))

\* C17: a create, update, delete, like, bookmark or comment request without a
\* valid credential is answered 401 with no store command issued, read or
\* write; list and get posts and list comments are served without credential.
C17_NoCredentialNoStoreAccess ==
  [][/\ (resp'.req.method # "GET" /\ resp'.req.cred = NoToken) =>
          /\ resp'.status = 401
          /\ db' = db
          /\ \A o \in KeyOrders(db) : Issued(o) = 0
     /\ (resp'.req.method = "GET" /\ resp'.req.cred = NoToken) =>
          /\ resp'.op \in {"handleGetPosts", "handleGetPost", "handleGetComments"}
          /\ resp'.status \in {200, 404}]_vars

\* a like request without credential for an existing post
C17_Witness ==
  /\ Served("authenticateUser", 401)
  /\ resp.req.method = "POST"
  /\ \E id \in IssuedPosts : Exists(id) /\ resp.req.path = <<"community", "like", id>>
  /\ db.likes = {}

\* C18: a request of an authenticated caller without a profile record is
\* aborted before any operation runs, writes nothing, and is answered 404.
C18_NoProfileIsNotFound ==
  [][(resp'.req.method # "GET" /\ resp'.req.cred = NoProfile) =>
       /\ resp'.op = "getUserData"
       /\ db' = db
       /\ resp'.status = 404]_vars

\* the program of the request of a step
StepProgram(o) ==
  RequestProgram(db, resp'.req, PostIdPool[nextPost], CommentIdPool[nextComment],
                 clock, o)
\* the commands from the failing one to the end of a program without fan
Rest(program, at) ==
  SubSeq(program.before, at.step, Len(program.before))
\* the store the request leaves when no command fails
Completed ==
  Serve(db, resp'.req, PostIdPool[nextPost], CommentIdPool[nextComment], clock).db

\* C19 as stated: a request ended by a failing store command answers 500, and
\* the request issues no store command after the one that failed.
C19_NoLaterStoreStep ==
  [][fault'.part # "none" => (resp'.status = 500 /\ fault'.later = 0)]_vars

\* C19, amended: a request ended by a failing store command answers 500 with
\* no data; the writes before the failing command stay and no write follows
\* it, so that running the commands from the failing one on would complete
\* the operation; no store command at all follows the failure outside the
\* callbacks of listPosts and listComments, which issue reads only.
C19_FailureKeepsAppliedWrites ==
  [][fault'.part # "none" =>
       /\ resp'.status = 500
       /\ resp'.data = NoData
       /\ \E o \in KeyOrders(db) :
            LET program == StepProgram(o) IN
              /\ \E at \in FailurePoints(program) :
                   fault' = [at EXCEPT !.later = fault'.later]
              /\ db' = Run(db, Preceding(program, fault'))
              /\ fault'.part = "before" /\ Len(program.fan) = 0 =>
                   Run(db', Rest(program, fault')) = Completed
              /\ \A i \in 1..Len(program.fan) :
                   \A k \in 1..Len(program.fan[i]) : ~IsWrite(program.fan[i][k])
       /\ fault'.later > 0 =>
            /\ fault'.part = "fan"
            /\ resp'.op \in {"handleGetPosts", "handleGetComments"}
            /\ db' = db]_vars

\* createPost ended by the failure of its second lpush: the record and the
\* entry of the global list stay, the author's list and the indices are
\* not written
C19_Witness ==
  /\ fault = Point("before", 0, 4)
  /\ resp.op = "handleCreatePost"
  /\ resp.status = 500
  /\ \E p \in IssuedPosts :
       /\ Exists(p)
       /\ InGlobalList(p)
       /\ AuthorListsOf(p) = {}
       /\ CategorySetsOf(p) = {}

\* the fields of a post record that name it, its author and its creation
Origin(rec) ==
  [id |-> rec.id, authorId |-> rec.authorId, authorName |-> rec.authorName,
   createdAt |-> rec.createdAt]

\* C20: no step changes the id, authorId, authorName or createdAt of a post
\* record, neither an update by the author or the administrator nor a change
\* of a profile's display name, and an accepted update returns them as they
\* were stored.
C20_UpdateKeepsOrigin ==
  [][/\ \A p \in IssuedPosts :
          HasHash(db.post, p) =>
            /\ HasHash(db'.post, p)
            /\ Origin(db'.post[p]) = Origin(db.post[p])
     /\ resp'.op = "handleUpdatePost" /\ resp'.status = 200 =>
          /\ HasHash(db.post, resp'.postId)
          /\ Origin(resp'.data) = Origin(db.post[resp'.postId])]_vars

\* the administrator has updated, after the time of creation, a post of u1,
\* whose profile has since got another display name: the record still holds
\* the name of the creation
C20_Witness ==
  /\ resp.op = "handleUpdatePost"
  /\ resp.status = 200
  /\ resp.req.cred = "adm"
  /\ HasHash(db.post, resp.postId)
  /\ db.post[resp.postId].authorId = "u1"
  /\ db.post[resp.postId].authorName = Str(<<"Ann">>)
  /\ db.user["u1"].name = Str(<<"Zed">>)
  /\ db.post[resp.postId].updatedAt # db.post[resp.postId].createdAt
  /\ db.post[resp.postId].title = Str(<<"T", "2">>)

\* the sort key and order listPosts uses for a query
KeyOf(q) == Default(q.sortBy, Str(<<"createdAt">>))
OrderOf(q) == Default(q.sortOrder, Str(<<"desc">>))

\* is the listing in non-increasing, non-decreasing order of the key
NonIncreasing(out, key) ==
  \A i \in 1..Len(out) : \A j \in 1..Len(out) :
    i < j => SortKey(out[i], key) >= SortKey(out[j], key)
NonDecreasing(out, key) ==
  \A i \in 1..Len(out) : \A j \in 1..Len(out) :
    i < j => SortKey(out[i], key) <= SortKey(out[j], key)

\* the answer of listPosts to a query without filter: every post, once
ListsEveryPost ==
  /\ resp.op = "handleGetPosts"
  /\ resp.status = 200
  /\ Len(resp.data) = Len(db.posts)
  /\ {resp.data[i].id : i \in 1..Len(resp.data)} = {db.posts[i] : i \in 1..Len(db.posts)}

\* C21 as stated: with no sort key the listing is ordered by createdAt, newest
\* first; with sort key likes or comments it is in the requested direction.
C21_SortedNewestFirstOrByCount ==
  ListsEveryPost =>
    /\ resp.req.query.sortBy = Undefined =>
         NonIncreasing(resp.data, Str(<<"createdAt">>))
    /\ resp.req.query.sortBy \in {Str(<<"likes">>), Str(<<"comments">>)} =>
         IF OrderOf(resp.req.query) = Str(<<"desc">>)
           THEN NonIncreasing(resp.data, resp.req.query.sortBy)
           ELSE NonDecreasing(resp.data, resp.req.query.sortBy)

\* C21, amended: the listing is ordered by the sort key, createdAt when the
\* request names none, in the requested direction, descending (for createdAt:
\* newest first) when the request names none.
C21_SortedByKeyInDirection ==
  ListsEveryPost =>
    IF OrderOf(resp.req.query) = Str(<<"desc">>)
      THEN NonIncreasing(resp.data, KeyOf(resp.req.query))
      ELSE NonDecreasing(resp.data, KeyOf(resp.req.query))

\* a listing by likes, ascending, that is not in the order of the global list
C21_Witness ==
  /\ ListsEveryPost
  /\ resp.req.query.sortBy = Str(<<"likes">>)
  /\ resp.req.query.sortOrder = Str(<<"asc">>)
  /\ resp.data[1].likes < resp.data[2].likes
  /\ resp.data[1].id # db.posts[1]
  /\ resp.data[1].createdAt < resp.data[2].createdAt

\* the store after the request of invocation a, then that of invocation b,
\* each run from its first command to its last
OneAfterTheOther(d, a, b) ==
  Serve(Serve(d, a.req, a.newPostId, a.newCommentId, a.now).db,
        b.req, b.newPostId, b.newCommentId, b.now).db

\* C22: when an operation on a post and an operation on another post have run
\* with their store commands interleaved, the store is the one that running
\* them one after the other leaves.
C22_DifferentPostsIndependent ==
  (running["first"].pc = "done" /\ running["second"].pc = "done") =>
    \/ db = OneAfterTheOther(base, running["first"], running["second"])
    \/ db = OneAfterTheOther(base, running["second"], running["first"])

\* a deletePost of one post and a bookmark of the other have both returned,
\* redis.keys of deletePost having run before the write of the bookmark
C22_Witness ==
  /\ running["first"].pc = "done"
  /\ running["second"].pc = "done"
  /\ running["first"].req.method = "DELETE"
  /\ running["second"].req.cred = "adm"
  /\ Sismember(db.bookmarks, "adm", PostQ)
  /\ Len(running["first"].keyOrder) = 1
  /\ ~HasHash(db.post, PostP)

\* a store with the updatedAt of its post records set aside
UpdatedAtAside(d) ==
  [d EXCEPT !.post = [p \in DOMAIN d.post |-> [d.post[p] EXCEPT !.updatedAt = 0]]]

\* C23: an accepted updatePost, setBookmark or deletePost followed by the same
\* request leaves the records, the indices and the memberships as the first
\* one left them, the updatedAt of the record aside.
C23_RepeatingChangesNothing ==
  [][(/\ resp.op \in {"handleUpdatePost", "handleBookmarkPost", "handleDeletePost"}
      /\ resp.status = 200
      /\ resp'.req = resp.req)
       => UpdatedAtAside(db') = UpdatedAtAside(db)]_vars

\* deletePost of a post that the same request has deleted before: the only
\* DELETE requests are those of the author, and the record is gone
C23_Witness ==
  /\ resp.op = "handleDeletePost"
  /\ resp.status = 404
  /\ resp.req.cred = "u1"
  /\ resp.postId \in IssuedPosts
  /\ ~HasHash(db.post, resp.postId)
  /\ clock = 1

\* is the comment in the comment list of its author
InAuthorList(d, c) ==
  \E i \in 1..Len(ListAt(d.userComments, d.comment[c].authorId)) :
    ListAt(d.userComments, d.comment[c].authorId)[i] = c

\* C24: no step removes or alters a comment record or takes it out of the
\* comment list of its author.
C24_CommentsArePermanent ==
  [][\A c \in DOMAIN db.comment :
       /\ HasHash(db'.comment, c)
       /\ db'.comment[c] = db.comment[c]
       /\ InAuthorList(db, c)
       /\ InAuthorList(db', c)]_vars

\* the post of a comment has been deleted; the comment is still there
C24_Witness ==
  /\ resp.op = "handleDeletePost"
  /\ resp.status = 200
  /\ \E c \in DOMAIN db.comment :
       /\ db.comment[c].postId = resp.postId
       /\ ~HasHash(db.post, resp.postId)
       /\ InAuthorList(db, c)

\* the invocation that runs command by command in the specifications with one
TheCall == running["first"]
\* has this step completed a command of an updatePost
UpdateStepped ==
  /\ running'["first"].req.method = "PUT"
  /\ running["first"].pc # "idle"
  /\ running'["first"].done > running["first"].done
\* the category sets, the tag sets that hold a post in a store
CategorySetsIn(d, p) == {x[1] : x \in {y \in d.category : y[2] = p}}
TagSetsIn(d, p) == {x[1] : x \in {y \in d.tag : y[2] = p}}

\* C25: no command of an updatePost leaves the post in two category sets, and
\* when the request carries no category or the stored one no command of it
\* changes a category set.
C25_CategoryMovesRemoveFirst ==
  [][UpdateStepped =>
       /\ Cardinality(CategorySetsIn(db', PostIdOf(TheCall.req))) <= 1
       /\ (HasHash(db.post, PostIdOf(TheCall.req)) /\
           ~CategoryChanges(db.post[PostIdOf(TheCall.req)], TheCall.req.body))
            => db'.category = db.category]_vars

\* an updatePost has removed the post from its old category set and not yet
\* added it to the new one
C25_Witness ==
  /\ TheCall.pc = "running"
  /\ TheCall.req.method = "PUT"
  /\ TheCall.done = 3
  /\ HasHash(db.post, PostIdOf(TheCall.req))
  /\ CategoryChanges(db.post[PostIdOf(TheCall.req)], TheCall.req.body)
  /\ CategorySetsIn(db, PostIdOf(TheCall.req)) = {}

\* the tags that both the stored list and the list of the request hold
RetainedTags(postData, body) ==
  {t \in Range(JSONParse(postData.tags).v) : t \in Range(body.tags.v)}

\* C26: no command of an updatePost with a new tag list takes the post out of
\* the set of a tag that the old and the new list both hold.
C26_RetainedTagsUntouched ==
  [][(/\ UpdateStepped
      /\ HasHash(db.post, PostIdOf(TheCall.req))
      /\ Truthy(TheCall.req.body.tags))
       => \A t \in RetainedTags(db.post[PostIdOf(TheCall.req)], TheCall.req.body) :
            Sismember(db.tag, t, PostIdOf(TheCall.req))
              => Sismember(db'.tag, t, PostIdOf(TheCall.req))]_vars

\* the post ids that the global list, an author list, a category set or a tag
\* set of a store holds
IndexedIn(d) ==
  Range(d.posts)
    \cup UNION {Range(d.userPosts[u]) : u \in DOMAIN d.userPosts}
    \cup {x[2] : x \in d.category}
    \cup {x[2] : x \in d.tag}

\* C27: after every command of a createPost, and after a store error has ended
\* it, every post id that an index holds has a record; and getPost returns
\* every record there is, whatever the indices hold.
C27_RecordBeforeIndices ==
  [][/\ \A id \in IndexedIn(db') : HasHash(db'.post, id)
     /\ (/\ running' = running
         /\ resp'.op = "handleGetPost"
         /\ HasHash(db.post, resp'.postId))
          => (resp'.status = 200 /\ resp'.data.id = resp'.postId)]_vars

\* a store error has ended a createPost after its record and before its entry
\* in the global list, and getPost has returned the record
C27_Witness ==
  /\ TheCall.pc = "failed"
  /\ TheCall.req.method = "POST"
  /\ TheCall.done = 2
  /\ resp.op = "handleGetPost"
  /\ resp.status = 200
  /\ resp.postId = TheCall.newPostId
  /\ resp.postId \notin IndexedIn(db)

\* what the indices, the likes, the comment list and the bookmark sets of a
\* store hold of a post
EntriesIn(d, p) ==
  [posts |-> p \in Range(d.posts),
   userPosts |-> {u \in DOMAIN d.userPosts : p \in Range(d.userPosts[u])},
   category |-> CategorySetsIn(d, p),
   tag |-> TagSetsIn(d, p),
   likes |-> Smembers(d.likes, p),
   comments |-> ListAt(d.postComments, p),
   bookmarks |-> {u \in Keys(d.bookmarks) : Sismember(d.bookmarks, u, p)}]

\* C28: once the record of a post is gone, no request that runs from its first
\* command to its last changes what the indices, the likes, the comment list
\* and the bookmark sets hold of the post, and a deletePost of the post
\* answers 404 and leaves the store as it was.
C28_LeftoversStay ==
  [][\A p \in IssuedPosts :
       (running' = running /\ ~HasHash(db.post, p)) =>
         /\ EntriesIn(db', p) = EntriesIn(db, p)
         /\ (resp'.op = "handleDeletePost" /\ resp'.postId = p /\ resp' # resp)
              => (resp'.status = 404 /\ db' = db)]_vars

\* a store error has ended deletePost after it deleted the record; the post is
\* still in the global list, liked and bookmarked; the deletePost tried again
\* has answered 404
C28_Witness ==
  /\ TheCall.pc = "failed"
  /\ TheCall.req.method = "DELETE"
  /\ TheCall.done = 3
  /\ resp.op = "handleDeletePost"
  /\ resp.status = 404
  /\ resp.postId = PostIdOf(TheCall.req)
  /\ resp.postId \in Range(db.posts)
  /\ Smembers(db.likes, resp.postId) = {"u2"}
  /\ Sismember(db.bookmarks, "u2", resp.postId)
  /\ Len(ListAt(db.postComments, resp.postId)) > 0


\* the fields of the record of post p as createPost wrote it
RecordOf(p) == SharedStore.post[p]
EntryRecord(e) ==
  [id |-> e.id, title |-> e.title, content |-> e.content, category |-> e.category,
   tags |-> e.tags, authorId |-> e.authorId, authorName |-> e.authorName,
   createdAt |-> e.createdAt, updatedAt |-> e.updatedAt]
WholeEntry(e) ==
  /\ e.id \in {PostP, PostQ}
  /\ EntryRecord(e) = [f \in DOMAIN EntryRecord(e) |->
                         IF f = "tags" THEN JSONParse(RecordOf(e.id).tags)
                         ELSE RecordOf(e.id)[f]]

\* the listPosts that ran command by command has returned
ListReturned ==
  /\ running["second"].pc = "done"
  /\ resp.op = "handleGetPosts"

\* C29: a listPosts that runs beside a deletePost, or after a deletePost that
\* ended between its commands, answers 200; every entry it returns is the
\* whole record of its post; it returns the ids of the global list whose
\* record it found and no other, and every post whose record is in the store
\* is among them.
C29_MissingRecordsSkipped ==
  ListReturned =>
    /\ resp.status = 200
    /\ \A i \in 1..Len(resp.data) : WholeEntry(resp.data[i])
    /\ ListedIds(resp.data) =
         {p \in Range(running["second"].view.posts) :
            HasHash(running["second"].view.post, p)}
    /\ \A p \in {PostP, PostQ} : HasHash(db.post, p) => p \in ListedIds(resp.data)

\* deletePost has ended on a store error after it deleted the record: the
\* global list holds the id; listPosts has read that list, has found no
\* record for the id and has returned the other post alone
C29_Witness ==
  /\ ListReturned
  /\ running["first"].pc = "failed"
  /\ \E p \in {PostP, PostQ} :
       /\ p \in Range(running["second"].view.posts)
       /\ p \in Range(db.posts)
       /\ ~HasHash(db.post, p)
       /\ ListedIds(resp.data) = {PostP, PostQ} \ {p}


ReadHandlers == {"handleGetPosts", "handleGetPost", "handleGetComments"}

\* the commands the request req sends to the store in the state it arrives in
CommandsOf(req) ==
  AllCommands(RequestProgram(db, req, PostIdPool[nextPost], CommentIdPool[nextComment],
                             clock, <<>>))

\* C30: a request served by listPosts, getPost or listComments sends the
\* store no write command and leaves the store as it was.
C30_ReadsLeaveStore ==
  [][resp'.op \in ReadHandlers =>
       /\ db' = db
       /\ \A i \in 1..Len(CommandsOf(resp'.req)) : ~IsWrite(CommandsOf(resp'.req)[i])]_vars

\* listComments has returned the comments of a post
C30_Witness ==
  /\ resp.op = "handleGetComments"
  /\ resp.status = 200
  /\ Len(resp.data) > 0
  /\ Len(db.posts) > 0


\* the invocations on the same post
TheFirst == running["first"]
TheSecond == running["second"]
Returned200(c) == c.pc = "done" /\ Answer(c).status = 200
Deleted(c) == c.req.method = "DELETE" /\ Returned200(c)

\* C31: once deletePost of a post has returned 200, getPost of the post
\* answers 404.
C31_DeletedStaysDeleted ==
  Deleted(TheSecond) => handleGetPost(db, PostP).status = 404


\* C32: once a setLike, a setBookmark or an addComment and the deletePost of
\* the same post have all returned and the record of the post is gone, there
\* is no like of the post, no comment in its list and no bookmark on it.
C32_DeletedPostKeepsNothing ==
  (/\ TheFirst.pc = "done"
   /\ TheFirst.req \in SameSocial
   /\ Deleted(TheSecond)
   /\ ~HasHash(db.post, PostP)) =>
    /\ Smembers(db.likes, PostP) = {}
    /\ ListAt(db.postComments, PostP) = <<>>
    /\ \A u \in Keys(db.bookmarks) : ~Sismember(db.bookmarks, u, PostP)


\* two updatePost of the same post have returned 200
BothUpdated ==
  /\ TheFirst.req \in SameUpdates
  /\ TheSecond.req \in SameUpdates
  /\ Returned200(TheFirst)
  /\ Returned200(TheSecond)

\* C33: once two updatePost of the same post have both returned 200, the post
\* is in the set of the category on its record and in no other, and in the
\* sets of the tags on its record and in no other.
C33_UpdatesLeaveIndicesRight ==
  (BothUpdated /\ HasHash(db.post, PostP)) =>
    /\ CategorySetsIn(db, PostP) = {Template(db.post[PostP].category)}
    /\ TagSetsIn(db, PostP) = Range(JSONParse(db.post[PostP].tags).v)


\* C34: once an updatePost with a new title only and an updatePost with a new
\* content only have both returned 200 for the same post, the record holds
\* the new title and the new content.
C34_DisjointUpdatesBothLand ==
  (/\ BothUpdated
   /\ {TheFirst.req.body, TheSecond.req.body} =
        {Body(NewTitle, Undefined, Undefined, Undefined, Undefined),
         Body(Undefined, NewContent, Undefined, Undefined, Undefined)}
   /\ HasHash(db.post, PostP)) =>
    /\ db.post[PostP].title = NewTitle
    /\ db.post[PostP].content = NewContent


\* C35: right after createPost has answered 201, the tag sets that hold the
\* new post are the sets of the tags on its record and no other.
C35_TagSetsAreStoredTags ==
  Served("handleCreatePost", 201) =>
    TagSetsOf(resp.data.id) = Range(JSONParse(db.post[resp.data.id].tags).v)


\* C36: the isLiked of a setLike answered 200 says whether the caller is in
\* the likes set of the post after the call, and the isBookmarked of a
\* setBookmark answered 200 says whether the post is in the caller's bookmark
\* set after the call.
C36_AnswerIsMembership ==
  /\ Served("handleLikePost", 200) =>
       resp.data.isLiked = Sismember(db.likes, resp.postId, resp.req.cred)
  /\ Served("handleBookmarkPost", 200) =>
       resp.data.isBookmarked = Sismember(db.bookmarks, resp.req.cred, resp.postId)


\* listPosts has answered a request with the bookmarked flag and no caller
AnonymousBookmarked ==
  /\ resp.op = "handleGetPosts"
  /\ resp.req.query.bookmarked = Str(<<"true">>)
  /\ resp.req.query.userId = ""

\* C37: listPosts with bookmarked=true and no caller identity answers what the
\* same request without the flag is answered, and isLiked and isBookmarked
\* are false on every entry.
C37_FlagWithoutCallerIsIgnored ==
  AnonymousBookmarked =>
    /\ resp.status = handleGetPosts(db, [resp.req.query EXCEPT !.bookmarked = Undefined]).status
    /\ resp.data = handleGetPosts(db, [resp.req.query EXCEPT !.bookmarked = Undefined]).data
    /\ \A i \in 1..Len(resp.data) :
         ~resp.data[i].isLiked /\ ~resp.data[i].isBookmarked

\* both posts are returned while one of them only is bookmarked, and liked
C37_Witness ==
  /\ AnonymousBookmarked
  /\ resp.status = 200
  /\ ListedIds(resp.data) = {PostP, PostQ}
  /\ Smembers(db.bookmarks, "u2") = {PostP}
  /\ Smembers(db.likes, PostQ) = {"u2"}

====
